---- MODULE Spec2Model ----
(***************************************************************************)
(* A model of src/ai.ts: the AIModel class (conversation state, option     *)
(* merging, the retry loop of makeRequest, send and stream) as a state     *)
(* machine.  One AIModel instance is modelled; the completion backend, the *)
(* backoff timer and the caller are the environment.                       *)
(*                                                                         *)
(* JavaScript values are encoded as follows.                               *)
(*   - an optional value (T | undefined | null) is a sequence: <<>> when   *)
(*     absent, <<v>> when present;                                         *)
(*   - a message content (string | MessageContent[]) is a record tagged    *)
(*     with kind "string" or "array";                                      *)
(*   - temperatures are in tenths (7 is 0.7);                              *)
(*   - an Error object is a record with its message, and the optional      *)
(*     cause / attempts properties a caller could read from it.            *)
(***************************************************************************)
EXTENDS Integers, Sequences, FiniteSets, TLC

(***************************************************************************)
(* Bounds of the model.                                                    *)
(***************************************************************************)
\* longest message history explored
MaxMsgs == 2
\* largest retryAttempts value explored
MaxAttempts == 3

(***************************************************************************)
(* Optional values.                                                        *)
(***************************************************************************)
None == <<>>
Some(v) == <<v>>
IsSome(o) == o # <<>>
Get(o) == o[1]

\* JS: o || d  for an optional number (undefined, null and 0 are falsy)
OrNum(o, d) == IF IsSome(o) /\ Get(o) # 0 THEN Get(o) ELSE d
\* JS: o || d  for an optional string (undefined, null and '' are falsy)
OrStr(o, d) == IF IsSome(o) /\ Get(o) # "" THEN Get(o) ELSE d
\* JS: o ?? d  (only undefined and null fall through)
Nullish(o, d) == IF IsSome(o) THEN Get(o) ELSE d

(***************************************************************************)
(* Message contents and messages.                                          *)
(***************************************************************************)
Str(s) == [kind |-> "string", text |-> s]
Arr(ps) == [kind |-> "array", parts |-> ps]
TextPart(t) == [type |-> "text", text |-> t]
ImagePart(u) == [type |-> "image_url", url |-> u]
Msg(r, c) == [role |-> r, content |-> c]

\* JS truthiness of a content value ('' is the only falsy content)
Truthy(c) == c # Str("")

(***************************************************************************)
(* Errors.  new Error(m) has a message and nothing else.                   *)
(***************************************************************************)
NewError(m) == [message |-> m, cause |-> None, attempts |-> None]

\* A thrown value: an Error object, or any other value (here a string).
ThrownError(m) == [isError |-> TRUE, error |-> NewError(m)]
ThrownValue(v) == [isError |-> FALSE, value |-> v]

\* makeRequest, the catch clause: error instanceof Error ? error : new Error(String(error))
ToError(t) == IF t.isError THEN t.error ELSE NewError(t.value)

\* send / stream, the catch clause: error instanceof Error ? error.message : 'Unknown error'
ErrorMessage(t) == IF t.isError THEN t.error.message ELSE "Unknown error"

EmptyConversationMessage == "No messages to send. Add at least one message or set a system prompt."
NoUserTurnMessage == "No user messages to send. Add at least one user message."
AllAttemptsFailedMessage == "Request failed after all retry attempts"
SendPrefix == "AI API Error: "
StreamPrefix == "AI Stream Error: "

(***************************************************************************)
(* Provider registry (the built-in entries) and the constructor.           *)
(***************************************************************************)
\* An AIProviderConfig: headers is optional.
Profile(name, baseURL, defaultModel, headers) ==
  [name |-> name, baseURL |-> baseURL, defaultModel |-> defaultModel, headers |-> headers]

BuiltinProviders ==
  [openrouter |-> Profile("OpenRouter", "https://openrouter.ai/api/v1",
                          "mistralai/mistral-small-3.1-24b-instruct:free",
                          Some({"HTTP-Referer", "X-Title"})),
   openai     |-> Profile("OpenAI", "https://api.openai.com/v1", "gpt-3.5-turbo", None),
   anthropic  |-> Profile("Anthropic", "https://api.anthropic.com/v1",
                          "claude-3-haiku-20240307", None)]

\* A Map<string, AIProviderConfig>: its entries, in insertion order.
Entry(id, profile) == [id |-> id, config |-> profile]

\* ProviderRegistry.providers as the class initializer builds it
InitialProviders ==
  << Entry("openrouter", BuiltinProviders.openrouter),
     Entry("openai", BuiltinProviders.openai),
     Entry("anthropic", BuiltinProviders.anthropic) >>

\* Map.prototype.has / get / set / delete
MapHas(entries, id) == \E i \in 1..Len(entries) : entries[i].id = id

MapGet(entries, id) ==
  IF MapHas(entries, id)
    THEN Some(entries[CHOOSE i \in 1..Len(entries) : entries[i].id = id].config)
    ELSE None

MapAppend(entries, id, profile) == Append(entries, Entry(id, profile))
MapSet(entries, id, profile) ==
  IF MapHas(entries, id)
    THEN [i \in 1..Len(entries) |->
            IF entries[i].id = id THEN Entry(id, profile) ELSE entries[i]]
    ELSE Append(entries, Entry(id, profile))

RECURSIVE MapDelete(_, _)
MapDelete(entries, id) ==
  IF entries = <<>> THEN <<>>
  ELSE IF Head(entries).id = id THEN MapDelete(Tail(entries), id)
  ELSE <<Head(entries)>> \o MapDelete(Tail(entries), id)

RegistrationMessage == "Provider configuration requires id, name, baseURL, and defaultModel"

DefaultTemperature == 7
DefaultMaxTokens == 1000
DefaultRetryAttempts == 3
DefaultTimeout == 30000

\* An AIModelConfig: every field but apiKey is optional; a caller without the
\* type checker can leave apiKey out as well.
ModelConfig(key, prov, mdl, temp, maxTok, sys, dbg, tmo, retry) ==
  [apiKey |-> key, provider |-> prov, model |-> mdl, temperature |-> temp,
   maxTokens |-> maxTok, systemPrompt |-> sys, debug |-> dbg, timeout |-> tmo,
   retryAttempts |-> retry]

\* config.provider || 'openrouter'
ProviderIdOf(cfg) == OrStr(cfg.provider, "openrouter")

\* this.config as the constructor sets it, `provider` being the profile found
ConfigOf(cfg, provider) ==
     [model |-> OrStr(cfg.model, provider.defaultModel),
      temperature |-> Nullish(cfg.temperature, DefaultTemperature),
      maxTokens |-> OrNum(cfg.maxTokens, DefaultMaxTokens),
      systemPrompt |-> OrStr(cfg.systemPrompt, ""),
      debug |-> Nullish(cfg.debug, FALSE),
      retryAttempts |-> OrNum(cfg.retryAttempts, DefaultRetryAttempts),
      timeout |-> OrNum(cfg.timeout, DefaultTimeout)]

\* the options of new OpenAI({...}), `provider` being the profile found
ClientOf(cfg, provider) ==
  [apiKey |-> cfg.apiKey, baseURL |-> provider.baseURL,
   defaultHeaders |-> provider.headers,
   timeout |-> OrNum(cfg.timeout, DefaultTimeout)]

VARIABLES
  messages,       \* this.messages
  config,         \* this.config
  loggerEnabled,  \* this.logger's enabled flag
  pc,             \* where the current send()/stream() call stands
  call,           \* the locals of the current send()/stream() call
  outcome,        \* how the last send()/stream() call ended
  obs,            \* what the environment saw of the current call
  addLog,         \* the add* calls made so far, while nothing else touched the history
  events,         \* the this.logger.log calls of the current send()/stream() call
  sinkFaults,     \* the event types on which this.logger.log throws, when enabled
  providers,      \* ProviderRegistry.providers, the entries in insertion order
  registryCall,   \* the last ProviderRegistry operation and what it answered
  created,        \* the AIModelConfig the constructor was given, if the caller kept it
  client,         \* this.client, the options the OpenAI client was made with
  second,         \* a send() call started while the current call was in flight
  customProviders \* ConfigManager.customProviders, the entries in insertion order

vars == <<messages, config, loggerEnabled, pc, call, outcome, obs, addLog,
          events, sinkFaults, providers, registryCall, created, client, second,
          customProviders>>

\* what the methods of an AIModel instance leave alone when they are called
\* one at a time
outside == <<sinkFaults, providers, registryCall, created, client, second, customProviders>>

(***************************************************************************)
(* Inputs explored.                                                        *)
(***************************************************************************)
ConstructorInputs ==
  { ModelConfig(Some("k"), Some("openai"), None, None, None, None, None, None, None),
    ModelConfig(Some("k"), Some("openai"), None, None, None, Some("You are terse."),
                None, None, Some(1)) }

Texts == {"a"}
ImageUrls == {"u"}
UserRoles == {"user", "assistant"}
SystemPrompts == {"", "You are terse."}

\* A partial configuration for updateConfig: a field that is absent is not merged.
NoChanges ==
  [model |-> None, temperature |-> None, maxTokens |-> None, systemPrompt |-> None,
   debug |-> None, timeout |-> None, retryAttempts |-> None]
UpdateInputs == { [NoChanges EXCEPT !.retryAttempts = Some(n)] : n \in 0..MaxAttempts }

\* RequestOptions: every field optional.
NoOptions == [model |-> None, temperature |-> None, maxTokens |-> None, stream |-> None]
OptionInputs ==
  { NoOptions,
    [model |-> Some("m9"), temperature |-> Some(12), maxTokens |-> None,
     stream |-> Some(FALSE)] }

(***************************************************************************)
(* The state of a call, and what is observed of it.                        *)
(***************************************************************************)
NoCall ==
  [kind |-> "none", payload |-> <<>>, params |-> <<>>, attempt |-> 0,
   lastError |-> None, delayMs |-> 0, stream |-> <<>>, fullContent |-> "",
   chunkCount |-> 0]

NoOutcome == [status |-> "none", value |-> None, error |-> None]

\* no second call: the locals and the result of a send() call
NoSecond ==
  [pc |-> "none", payload |-> <<>>, params |-> <<>>, attempt |-> 0, lastError |-> None,
   outcome |-> NoOutcome]

NoObs ==
  [before |-> <<>>, configBefore |-> None, validated |-> FALSE, invocations |-> 0,
   retries |-> <<>>, thrown |-> <<>>, answer |-> None, arrived |-> <<>>,
   chunks |-> <<>>, op |-> "none", options |-> None, follows |-> None,
   request |-> None, broke |-> None, given |-> None, env |-> None, registry |-> None,
   provider |-> None, entry |-> None, overlapped |-> FALSE, via |-> None]

\* No ProviderRegistry operation was called yet.
NoRegistryCall ==
  [op |-> "none", id |-> "", arg |-> None, before |-> <<>>, threw |-> None,
   returned |-> None]

FreshLog == [valid |-> TRUE, calls |-> <<>>]
VoidLog == [valid |-> FALSE, calls |-> <<>>]

\* ProviderRegistry.getProvider(providerId), as the constructor calls it
FoundProvider(cfg) == MapGet(providers, ProviderIdOf(cfg))

\* this.config and this.client of an instance whose provider was found
ConstructConfig(cfg) == ConfigOf(cfg, Get(FoundProvider(cfg)))
ConstructClient(cfg) == ClientOf(cfg, Get(FoundProvider(cfg)))

\* new AIModel(cfg, logger), the logger throwing on the event types `faults`
Constructed(cfg, faults, kept) ==
  /\ providers = InitialProviders
  /\ created = IF kept THEN Some(cfg) ELSE None
  /\ config = ConstructConfig(cfg)
  /\ client = ConstructClient(cfg)
  /\ second = NoSecond
  /\ customProviders = <<>>
  /\ loggerEnabled = Nullish(cfg.debug, FALSE)
  /\ messages = <<>>
  /\ pc = "idle"
  /\ call = NoCall
  /\ outcome = NoOutcome
  /\ obs = NoObs
  /\ addLog = FreshLog
  /\ events = <<>>
  /\ sinkFaults = faults
  /\ registryCall = NoRegistryCall

Init == \E cfg \in ConstructorInputs : Constructed(cfg, {}, FALSE)

\* A caller's operation starts: the record of the previous call is dropped.
Forget ==
  /\ pc' = "idle" /\ call' = NoCall /\ outcome' = NoOutcome /\ obs' = NoObs
  /\ events' = <<>>

\* The same, the caller noting which operation it is and what preceded it.
Noted(op) ==
  /\ pc' = "idle" /\ call' = NoCall /\ outcome' = NoOutcome
  /\ obs' = [NoObs EXCEPT !.op = op, !.before = messages, !.configBefore = Some(config)]
  /\ events' = <<>>

(***************************************************************************)
(* Message management.                                                     *)
(***************************************************************************)
\* this.messages.push({ role, content })
PushFront(msgs, m) == <<m>> \o msgs
Push(msgs, m) == Append(msgs, m)

AddMessage(content, role) ==
  /\ Len(messages) < MaxMsgs
  /\ messages' = Push(messages, Msg(role, content))
  /\ Forget
  /\ UNCHANGED <<config, loggerEnabled, outside>>

AddUserMessage(content) == AddMessage(content, "user")

AddAssistantMessage(content) == AddMessage(content, "assistant")

AddTextMessage(text, role) == AddMessage(Str(text), role)

AddImageMessage(text, imageUrl) ==
  AddMessage(Arr(<<TextPart(text), ImagePart(imageUrl)>>), "user")

\* getMessages(): [...this.messages], a new array holding the same Message objects
GetMessages == [sameArray |-> FALSE, items |-> messages]

ClearMessages ==
  /\ messages' = <<>>
  /\ addLog' = FreshLog
  /\ Noted("clearMessages")
  /\ UNCHANGED <<config, loggerEnabled, outside>>

\* reset() that clears the history only
ResetHistoryOnly ==
  /\ messages' = <<>>
  /\ config' = config
  /\ addLog' = FreshLog
  /\ Noted("reset")
  /\ UNCHANGED <<loggerEnabled, outside>>

Reset ==
  /\ messages' = <<>>
  /\ config' = [config EXCEPT !.systemPrompt = ""]
  /\ addLog' = FreshLog
  /\ Noted("reset")
  /\ UNCHANGED <<loggerEnabled, outside>>

SetSystemPrompt(prompt) ==
  /\ config' = [config EXCEPT !.systemPrompt = prompt]
  /\ Forget
  /\ UNCHANGED <<messages, loggerEnabled, addLog, outside>>

GetSystemPrompt == config.systemPrompt

\* the configuration left as it was
KeepConfig(old, partial) == old
\* { ...this.config, ...config }: the fields the argument holds are written,
\* those this.config did not have included
MergeConfig(old, partial) ==
  LET present == {f \in DOMAIN partial : IsSome(partial[f])}
  IN [f \in DOMAIN old \cup present |->
        IF f \in present THEN Get(partial[f]) ELSE old[f]]

\* updateConfig(partial), the caller having noted `seen` of its call
UpdateConfigNoting(partial, seen) ==
  /\ config' = MergeConfig(config, partial)
  /\ pc' = "idle" /\ call' = NoCall /\ outcome' = NoOutcome /\ events' = <<>>
  /\ obs' = seen
  /\ UNCHANGED <<messages, loggerEnabled, addLog, outside>>

UpdateConfig(partial) == UpdateConfigNoting(partial, NoObs)

\* enableDebug(enable)
EnableDebug(enable) ==
  /\ config' = [config EXCEPT !.debug = enable]
  /\ loggerEnabled' = enable
  /\ Noted("enableDebug")
  /\ UNCHANGED <<messages, addLog, outside>>

(***************************************************************************)
(* ProviderRegistry.                                                       *)
(***************************************************************************)
\* a Partial<AIProviderConfig>: a field that is absent is not merged
NoProfileChanges == [name |-> None, baseURL |-> None, defaultModel |-> None, headers |-> None]

\* registerProvider: !id || !config.name || !config.baseURL || !config.defaultModel
RefusedUnlessURL(id, profile) ==
  id = "" \/ profile.name = "" \/ profile.defaultModel = ""
Refused(id, profile) ==
  id = "" \/ profile.name = "" \/ profile.baseURL = "" \/ profile.defaultModel = ""

\* { ...existing, ...config }
KeepProfile(existing, partial) == existing
MergeProfile(existing, partial) ==
  [f \in DOMAIN existing |-> IF IsSome(partial[f]) THEN Get(partial[f]) ELSE existing[f]]

\* what the ProviderRegistry operation under way is noted as
RegistryCalled(op, id, arg) ==
  [op |-> op, id |-> id, arg |-> Some(arg), before |-> providers, threw |-> None,
   returned |-> None]

\* the fields of an instance
fields ==
  <<messages, config, loggerEnabled, pc, call, outcome, obs, addLog, events, sinkFaults,
    created, client, second>>

\* the fields of the instance and of the ConfigManager, which no
\* ProviderRegistry operation touches
instance == <<fields, customProviders>>

\* the body of ProviderRegistry.registerProvider
Registering(id, profile) ==
  IF Refused(id, profile)
    THEN /\ providers' = providers
         /\ registryCall' = [RegistryCalled("registerProvider", id, profile) EXCEPT
                               !.threw = Some(NewError(RegistrationMessage))]
    ELSE /\ providers' = MapSet(providers, id, profile)
         /\ registryCall' = RegistryCalled("registerProvider", id, profile)

RegisterProvider(id, profile) ==
  /\ Registering(id, profile)
  /\ UNCHANGED instance

GetProvider(id) == MapGet(providers, id)

\* getAllProviders(): new Map(this.providers)
GetAllProviders == providers

UpdateProvider(id, partial) ==
  LET existing == MapGet(providers, id)
  IN /\ IF ~IsSome(existing)
          THEN /\ providers' = providers
               /\ registryCall' = [RegistryCalled("updateProvider", id, partial) EXCEPT
                                     !.returned = Some(FALSE)]
          ELSE /\ providers' = MapSet(providers, id, MergeProfile(Get(existing), partial))
               /\ registryCall' = [RegistryCalled("updateProvider", id, partial) EXCEPT
                                     !.returned = Some(TRUE)]
     /\ UNCHANGED instance

HasProvider(id) == MapHas(providers, id)

RemoveProvider(id) ==
  /\ providers' = MapDelete(providers, id)
  /\ registryCall' = [RegistryCalled("removeProvider", id, id) EXCEPT
                        !.returned = Some(MapHas(providers, id))]
  /\ UNCHANGED instance

(***************************************************************************)
(* ConfigManager: its own map of custom providers beside the registry.     *)
(***************************************************************************)
\* registerProvider(id, config): the entry is stored in customProviders
\* first, then ProviderRegistry.registerProvider runs (and may throw)
ManagerRegisterProvider(id, profile) ==
  /\ customProviders' = MapSet(customProviders, id, profile)
  /\ Registering(id, profile)
  /\ UNCHANGED fields

\* getProvider(id): this.customProviders.get(id) || ProviderRegistry.getProvider(id)
ManagerGetProvider(id) ==
  IF IsSome(MapGet(customProviders, id)) THEN MapGet(customProviders, id)
  ELSE GetProvider(id)

\* this.customProviders.forEach((config, id) => allProviders.set(id, config))
RECURSIVE SetEach(_, _)
SetEach(entries, custom) ==
  IF custom = <<>> THEN entries
  ELSE SetEach(MapSet(entries, Head(custom).id, Head(custom).config), Tail(custom))

\* getAllProviders(): a copy of the registry's map with the custom entries set
ManagerGetAllProviders == SetEach(GetAllProviders, customProviders)

(***************************************************************************)
(* The caller edits what getAllProviders() returned: a new Map that holds  *)
(* the profile objects of the registry.  An edit of the map (set, delete)  *)
(* reaches the registry only when the map is the internal one; an edit of  *)
(* a profile writes the object the registry holds too.                     *)
(***************************************************************************)
ProvidersSnapshot == [sameMap |-> FALSE, entries |-> providers]

MapEdits == {"set", "delete"}
ProfileEdits == {"name", "baseURL", "defaultModel"}

EditMap(entries, op, id) ==
  CASE op = "set" -> MapSet(entries, id, Profile("Mine", "https://mine.example/v1", "mine-1", None))
    [] op = "delete" -> MapDelete(entries, id)

EditProvidersMap(op, id) ==
  LET snapshot == ProvidersSnapshot
  IN /\ providers' = IF snapshot.sameMap THEN EditMap(snapshot.entries, op, id) ELSE providers
     /\ registryCall' = RegistryCalled("editMap", id, op)
     /\ UNCHANGED instance

EditProvidersProfile(id, field) ==
  LET snapshot == ProvidersSnapshot
  IN /\ MapHas(snapshot.entries, id)
     /\ providers' = MapSet(snapshot.entries, id,
                            [Get(MapGet(snapshot.entries, id)) EXCEPT ![field] = "changed"])
     /\ registryCall' = RegistryCalled("editProfile", id, field)
     /\ UNCHANGED instance

(***************************************************************************)
(* The caller edits what getMessages() returned.  An edit of the array     *)
(* (push, pop, reverse) reaches this.messages only when the array is the   *)
(* internal one; an edit of an entry (role, content) writes the Message    *)
(* object, which the internal array holds too.                             *)
(***************************************************************************)
Reverse(s) == [i \in 1..Len(s) |-> s[Len(s) + 1 - i]]

ArrayEdits == {"push", "pop", "reverse"}
EntryEdits == {"content", "role"}
SystemEdits == {"system"}

EditArray(items, op) ==
  CASE op = "push" -> Append(items, Msg("user", Str("a")))
    [] op = "pop" -> IF items = <<>> THEN items ELSE SubSeq(items, 1, Len(items) - 1)
    [] op = "reverse" -> Reverse(items)

EditEntry(items, op, i) ==
  CASE op = "content" -> [items EXCEPT ![i].content = Str("b")]
    [] op = "role" -> [items EXCEPT ![i].role = "assistant"]
    [] op = "system" -> [items EXCEPT ![i].role = "system"]

EditSnapshotArray(op) ==
  LET snapshot == GetMessages
  IN /\ messages' = IF snapshot.sameArray THEN EditArray(snapshot.items, op) ELSE messages
     /\ Len(messages') <= MaxMsgs
     /\ addLog' = VoidLog
     /\ Forget
     /\ UNCHANGED <<config, loggerEnabled, outside>>

EditSnapshotEntry(op, i) ==
  LET snapshot == GetMessages
  IN /\ i \in 1..Len(snapshot.items)
     /\ messages' = EditEntry(snapshot.items, op, i)
     /\ addLog' = VoidLog
     /\ Forget
     /\ UNCHANGED <<config, loggerEnabled, outside>>

(***************************************************************************)
(* Private helpers of AIModel.                                             *)
(***************************************************************************)
BuildMessages ==
  (IF config.systemPrompt # "" THEN <<Msg("system", Str(config.systemPrompt))>> ELSE <<>>)
    \o messages

HasAnyMessage(msgs) == Len(msgs) > 0
HasUserMessage(msgs) == \E i \in 1..Len(msgs) : msgs[i].role = "user"

\* validateMessages(): the message of the error it throws, if it throws
ValidateNonEmpty ==
  IF Len(BuildMessages) = 0 THEN Some(EmptyConversationMessage) ELSE None
ValidateMessages ==
  IF Len(BuildMessages) = 0 THEN Some(EmptyConversationMessage)
  ELSE IF ~HasUserMessage(BuildMessages) THEN Some(NoUserTurnMessage)
  ELSE None

MergeOptionsInstanceFirst(options) ==
  [model |-> config.model, temperature |-> config.temperature,
   maxTokens |-> config.maxTokens, stream |-> (IsSome(options.stream) /\ Get(options.stream))]
MergeOptions(options) ==
  [model |-> OrStr(options.model, config.model),
   temperature |-> Nullish(options.temperature, config.temperature),
   maxTokens |-> OrNum(options.maxTokens, config.maxTokens),
   stream |-> (IsSome(options.stream) /\ Get(options.stream))]

\* this.config after mergeOptions: the merged values go to a new object
ConfigKeepingMerged(cfg, params) ==
  [cfg EXCEPT !.model = params.model, !.temperature = params.temperature,
              !.maxTokens = params.maxTokens]
ConfigAfterMerge(cfg, params) == cfg

\* getConfig(): { ...this.config }
GetConfig == config

\* 2 ** n
RECURSIVE Pow2(_)
Pow2(n) == IF n = 0 THEN 1 ELSE 2 * Pow2(n - 1)

\* makeRequest: the delay before the attempt that follows attempt number `attempt`
RetryDelayFromZero(attempt) == Pow2(attempt - 1) * 1000
RetryDelay(attempt) == Pow2(attempt) * 1000

\* makeRequest: whether a failed attempt is followed by a delay and another attempt
MayRetryAlways(attempt, limit) == attempt <= limit
MayRetry(attempt, limit) == attempt < limit

(***************************************************************************)
(* What the completion backend may answer.                                 *)
(***************************************************************************)
Choice(content) == [content |-> content, finish_reason |-> Some("stop")]
Usage(p, c, t) == [prompt_tokens |-> p, completion_tokens |-> c, total_tokens |-> t]

Completions ==
  { [choices |-> Some(<<Choice(Some(Str("4")))>>),
     usage |-> Some(Usage(Some(2), Some(1), Some(3))), model |-> "gpt-3.5-turbo"],
    [choices |-> Some(<<Choice(None)>>),
     usage |-> Some(Usage(Some(10), None, Some(10))), model |-> "gpt-3.5-turbo"],
    [choices |-> Some(<<>>), usage |-> None, model |-> "gpt-3.5-turbo"],
    [choices |-> None, usage |-> None, model |-> "gpt-3.5-turbo"],
    [choices |-> Some(<<Choice(Some(Arr(<<TextPart("4")>>)))>>),
     usage |-> Some(Usage(Some(2), Some(1), Some(3))), model |-> "gpt-3.5-turbo"] }

\* The chunks of a streamed completion: each carries a text delta, or none.
StreamInputs ==
  { <<>>,
    <<Some("x"), None, Some(""), Some("y")>>,
    <<Some("Hel"), Some("lo"), Some(" world")>> }

\* What a backend invocation, or the iteration of a stream, may throw.
BackendFailures == { ThrownError("rate limit"), ThrownValue("boom") }

\* What the caller's onChunk callback may throw.
CallbackFailures == { ThrownError("callback failed"), ThrownValue("stop") }

UndefinedChoicesMessage == "Cannot read properties of undefined (reading '0')"
NotAStringMessage == "content.substring is not a function"

\* completion.choices[0]?.message?.content || ''   (choices is defined)
CompletionContent(completion) ==
  LET choices == Get(completion.choices)
  IN IF Len(choices) > 0 /\ IsSome(choices[1].content) /\ Truthy(Get(choices[1].content))
       THEN Get(choices[1].content)
       ELSE Str("")

\* completion.usage?.<field> || 0
UsageFieldTotal(completion, f) ==
  IF IsSome(completion.usage) THEN OrNum(Get(completion.usage).total_tokens, 0) ELSE 0
UsageField(completion, f) ==
  IF IsSome(completion.usage) THEN OrNum(Get(completion.usage)[f], 0) ELSE 0

\* the AIResponse send() builds
ResponseOf(completion) ==
  LET choices == Get(completion.choices)
  IN [content |-> CompletionContent(completion),
      usage |-> [promptTokens |-> UsageField(completion, "prompt_tokens"),
                 completionTokens |-> UsageField(completion, "completion_tokens"),
                 totalTokens |-> UsageField(completion, "total_tokens")],
      model |-> completion.model,
      finishReason |-> IF Len(choices) > 0 THEN choices[1].finish_reason ELSE None]

(***************************************************************************)
(* send() and stream().                                                    *)
(***************************************************************************)
Prefix(kind) == IF kind = "send" THEN SendPrefix ELSE StreamPrefix

Threw(e) == [status |-> "threw", value |-> None, error |-> Some(e)]
Returned(v) == [status |-> "returned", value |-> Some(v), error |-> None]

\* the catch clause of send() / stream()
Rethrown(kind, t) == Threw(NewError(Prefix(kind) \o ErrorMessage(t)))

(***************************************************************************)
(* The logger.  DefaultLogger.log returns at once when it is not enabled   *)
(* and never throws; a Logger passed to the constructor may throw.         *)
(***************************************************************************)
SinkFailureMessage == "logger failed"
SinkFailure == ThrownError(SinkFailureMessage)

\* one this.logger.log(type, ...) call: what was handed over, and whether it came out
LoggedAlways(evs, type) == Append(evs, [type |-> type, emitted |-> TRUE])
Logged(evs, type) == Append(evs, [type |-> type, emitted |-> loggerEnabled])

\* whether this.logger.log(type, ...) throws
LogThrows(type) == loggerEnabled /\ type \in sinkFaults

\* the catch clause of send() / stream(), its logger.log('ERROR', ...) call included:
\* what the logger throws there leaves the catch clause as it is
Caught(kind, t) == IF LogThrows("ERROR") THEN Threw(SinkFailure.error) ELSE Rethrown(kind, t)

\* the argument of client.chat.completions.create
RequestOfMerged(kind, payload, params) ==
  [model |-> params.model, messages |-> payload, temperature |-> params.temperature,
   max_tokens |-> params.maxTokens, stream |-> params.stream]
RequestOf(kind, payload, params) ==
  [model |-> params.model, messages |-> payload, temperature |-> params.temperature,
   max_tokens |-> params.maxTokens, stream |-> (kind = "stream")]

\* this.client.chat.completions.create: the client a request goes through is
\* the one the constructor made, whatever the registry holds by now
ClientResolvedAgain ==
  IF IsSome(created) /\ IsSome(FoundProvider(Get(created)))
    THEN ConstructClient(Get(created))
    ELSE client
ClientInUse == client

\* what is observed when a call starts; a caller that kept its constructor
\* argument also notes the options of the call that this call follows, and
\* the caller of a send*Message method what it noted on entry
Started ==
  [NoObs EXCEPT !.before = messages, !.configBefore = Some(config),
                !.follows = IF IsSome(created) /\ pc = "done" THEN obs.options ELSE None,
                !.op = IF pc = "chained" THEN obs.op ELSE "none",
                !.entry = IF pc = "chained" THEN obs.entry ELSE None,
                !.given = IF pc = "chained" THEN obs.given ELSE None]

\* send() or stream() up to the first backend invocation; `options` is what
\* mergeOptions is given, `given` what the caller passed
Dispatch(kind, options, given) ==
  /\ pc \in {"idle", "done", "chained"}
  /\ addLog' = VoidLog
  /\ IF IsSome(ValidateMessages)
       THEN \* validateMessages() throws, outside the try block
            /\ pc' = "done"
            /\ call' = [NoCall EXCEPT !.kind = kind]
            /\ outcome' = Threw(NewError(Get(ValidateMessages)))
            /\ obs' = [Started EXCEPT !.options = Some(given)]
            /\ events' = <<>>
       ELSE \* the history of a chained call was bounded when it was built
            /\ pc = "chained" \/ Len(messages) < MaxMsgs
            /\ call' = [NoCall EXCEPT !.kind = kind, !.payload = BuildMessages,
                                      !.params = MergeOptions(options), !.attempt = 1]
            /\ IF LogThrows("REQUEST")
                 THEN \* logger.log('REQUEST', ...) throws, outside the try block
                      /\ pc' = "done"
                      /\ outcome' = Threw(SinkFailure.error)
                      /\ obs' = [Started EXCEPT !.validated = TRUE,
                                                !.options = Some(given)]
                      /\ events' = Logged(<<>>, "REQUEST")
                 ELSE IF 1 <= config.retryAttempts
                 THEN /\ pc' = "attempt"
                      /\ outcome' = NoOutcome
                      /\ obs' = [Started EXCEPT
                                   !.validated = TRUE, !.invocations = 1,
                                   !.options = Some(given),
                                   !.via = Some(ClientInUse),
                                   !.request = Some(RequestOf(kind, BuildMessages,
                                                              MergeOptions(options)))]
                      /\ events' = Logged(<<>>, "REQUEST")
                 ELSE \* the loop body never runs: lastError is null
                      /\ pc' = "done"
                      /\ outcome' = Caught(kind, ThrownError(AllAttemptsFailedMessage))
                      /\ obs' = [Started EXCEPT !.validated = TRUE,
                                                !.options = Some(given)]
                      /\ events' = Logged(Logged(Logged(<<>>, "REQUEST"), "ERROR"), "ERROR")
  /\ config' = IF IsSome(ValidateMessages)
                 THEN config
                 ELSE ConfigAfterMerge(config, MergeOptions(options))
  /\ UNCHANGED <<messages, loggerEnabled, outside>>

Send(options) == Dispatch("send", options, options)

Stream(options) ==
  Dispatch("stream", [options EXCEPT !.stream = Some(TRUE)], options)

(***************************************************************************)
(* The quick message methods: the history is changed first, and send() is  *)
(* called on what the change returned (pc = "chained" in between, where    *)
(* nothing else can run).                                                  *)
(***************************************************************************)
\* the history has been changed and send(options) is about to be called,
\* the caller having noted `seen` of its call
ChainedNoting(op, options, seen) ==
  /\ pc \in {"idle", "done"}
  /\ pc' = "chained"
  /\ call' = NoCall /\ outcome' = NoOutcome /\ events' = <<>>
  /\ obs' = [seen EXCEPT !.op = op, !.options = Some(options),
                         !.entry = Some(messages)]
  /\ addLog' = VoidLog
  /\ UNCHANGED <<config, loggerEnabled, outside>>

Chained(op, options) == ChainedNoting(op, options, NoObs)

\* sendTextMessage(text, options): this.addUserMessage(text)
SendTextMessage(text, options) ==
  /\ Len(messages) + 1 < MaxMsgs
  /\ messages' = Push(messages, Msg("user", Str(text)))
  /\ Chained("sendTextMessage", options)

\* sendImageMessage(text, imageUrl, options): this.addImageMessage(text, imageUrl)
SendImageMessage(text, imageUrl, options) ==
  /\ Len(messages) + 1 < MaxMsgs
  /\ messages' = Push(messages, Msg("user", Arr(<<TextPart(text), ImagePart(imageUrl)>>)))
  /\ Chained("sendImageMessage", options)

\* messages.forEach(msg => this.addMessage(msg.content, msg.role)) on a history
RECURSIVE AddEach(_, _)
AddEach(history, list) ==
  IF list = <<>> THEN history
  ELSE AddEach(Push(history, Msg(Head(list).role, Str(Head(list).content))), Tail(list))

\* clearMessages(): this.messages = []
NotCleared(history) == history
Cleared(history) == <<>>

\* sendMultipleMessages(list, options): clearMessages(), then the addMessage calls
SendMultipleMessages(list, options) ==
  /\ Len(list) <= MaxMsgs
  /\ messages' = AddEach(Cleared(messages), list)
  /\ Len(messages') <= MaxMsgs
  /\ ChainedNoting("sendMultipleMessages", options, [NoObs EXCEPT !.given = Some(list)])

\* .send(options), called on what the change of the history returned
SendChained ==
  /\ pc = "chained"
  /\ Send(Get(obs.options))

\* makeRequest, the catch clause: the new value of lastError
FirstError(previous, t) == IF IsSome(previous) THEN Get(previous) ELSE ToError(t)
CaughtError(previous, t) == ToError(t)

\* makeRequest: the backend invocation of this attempt throws
BackendFails(t) ==
  /\ pc = "attempt"
  /\ LET lastError == CaughtError(call.lastError, t)
         thrown == Append(obs.thrown, t)
     IN IF MayRetry(call.attempt, config.retryAttempts)
          THEN IF LogThrows("ERROR")
                 THEN \* logger.log('ERROR', ...) throws in the catch clause of
                      \* makeRequest, which ends the loop
                      /\ pc' = "done"
                      /\ call' = [call EXCEPT !.lastError = Some(lastError)]
                      /\ obs' = [obs EXCEPT !.thrown = thrown]
                      /\ outcome' = Caught(call.kind, SinkFailure)
                      /\ events' = Logged(Logged(events, "ERROR"), "ERROR")
                 ELSE /\ pc' = "backoff"
                      /\ call' = [call EXCEPT !.lastError = Some(lastError),
                                              !.delayMs = RetryDelay(call.attempt)]
                      /\ obs' = [obs EXCEPT !.thrown = thrown,
                                            !.retries = Append(@, RetryDelay(call.attempt))]
                      /\ outcome' = outcome
                      /\ events' = Logged(events, "ERROR")
          ELSE \* the loop ends; makeRequest logs and throws lastError
               /\ pc' = "done"
               /\ call' = [call EXCEPT !.lastError = Some(lastError),
                                       !.attempt = call.attempt + 1]
               /\ obs' = [obs EXCEPT !.thrown = thrown]
               /\ outcome' = Caught(call.kind, [isError |-> TRUE, error |-> lastError])
               /\ events' = Logged(Logged(events, "ERROR"), "ERROR")
  /\ UNCHANGED <<messages, config, loggerEnabled, addLog, outside>>

\* makeRequest: the backoff timer fires and the loop goes on
BackoffElapses ==
  /\ pc = "backoff"
  /\ IF call.attempt + 1 <= config.retryAttempts
       THEN /\ pc' = "attempt"
            /\ call' = [call EXCEPT !.attempt = call.attempt + 1, !.delayMs = 0]
            /\ obs' = [obs EXCEPT !.invocations = @ + 1]
            /\ outcome' = outcome
            /\ events' = events
       ELSE /\ pc' = "done"
            /\ call' = [call EXCEPT !.attempt = call.attempt + 1, !.delayMs = 0]
            /\ obs' = obs
            /\ outcome' = Caught(call.kind, [isError |-> TRUE, error |-> Get(call.lastError)])
            /\ events' = Logged(Logged(events, "ERROR"), "ERROR")
  /\ UNCHANGED <<messages, config, loggerEnabled, addLog, outside>>

\* send(): the backend answers with a completion; the rest of send() runs
BackendAnswers(completion) ==
  /\ pc = "attempt"
  /\ call.kind = "send"
  /\ pc' = "done"
  /\ call' = call
  /\ obs' = [obs EXCEPT !.answer = Some(completion)]
  /\ IF ~IsSome(completion.choices)
       THEN \* completion.choices[0] throws a TypeError
            /\ messages' = messages
            /\ outcome' = Caught("send", ThrownError(UndefinedChoicesMessage))
            /\ events' = Logged(events, "ERROR")
       ELSE LET content == CompletionContent(completion)
            IN /\ messages' = Push(messages, Msg("assistant", content))
               /\ IF content.kind # "string"
                    THEN \* content.substring(0, 200) throws a TypeError
                         /\ outcome' = Caught("send", ThrownError(NotAStringMessage))
                         /\ events' = Logged(events, "ERROR")
                    ELSE IF LogThrows("RESPONSE")
                    THEN /\ outcome' = Caught("send", SinkFailure)
                         /\ events' = Logged(Logged(events, "RESPONSE"), "ERROR")
                    ELSE /\ outcome' = Returned(ResponseOf(completion))
                         /\ events' = Logged(events, "RESPONSE")
  /\ UNCHANGED <<config, loggerEnabled, addLog, outside>>

\* stream(): the backend answers with a stream of chunks
BackendOpensStream(chunks) ==
  /\ pc = "attempt"
  /\ call.kind = "stream"
  /\ pc' = "consume"
  /\ call' = [call EXCEPT !.stream = chunks, !.fullContent = "", !.chunkCount = 0]
  /\ obs' = [obs EXCEPT !.answer = Some(chunks)]
  /\ UNCHANGED <<messages, config, loggerEnabled, outcome, addLog, events, outside>>

\* chunk.choices[0]?.delta?.content || ''
DeltaOf(chunk) == OrStr(chunk, "")

\* fullContent += content
AccumulateFront(fullContent, content) == content \o fullContent
Accumulate(fullContent, content) == fullContent \o content

\* stream(): one turn of the for-await loop; onChunk returns
StreamChunk ==
  /\ pc = "consume"
  /\ call.stream # <<>>
  /\ LET content == DeltaOf(Head(call.stream))
     IN /\ call' = IF content # ""
                     THEN [call EXCEPT !.stream = Tail(@), !.fullContent = Accumulate(@, content),
                                       !.chunkCount = @ + 1]
                     ELSE [call EXCEPT !.stream = Tail(@)]
        /\ obs' = [obs EXCEPT !.arrived = Append(@, Head(call.stream)),
                              !.chunks = IF content # "" THEN Append(@, content) ELSE @]
  /\ UNCHANGED <<messages, config, loggerEnabled, pc, outcome, addLog, events, outside>>

\* where stream() goes when the for-await loop throws: the loop is outside
\* makeRequest, so the catch clause of stream() ends the call
AfterConsumeFailureRetrying(attempt, limit) ==
  IF MayRetry(attempt, limit) THEN "attempt" ELSE "done"
AfterConsumeFailure(attempt, limit) == "done"

\* stream(): one turn of the for-await loop; onChunk throws
StreamChunkCallbackThrows(t) ==
  /\ pc = "consume"
  /\ call.stream # <<>>
  /\ DeltaOf(Head(call.stream)) # ""
  /\ LET content == DeltaOf(Head(call.stream))
     IN /\ call' = [call EXCEPT !.stream = Tail(@), !.fullContent = Accumulate(@, content),
                                !.chunkCount = @ + 1]
        /\ obs' = [obs EXCEPT !.arrived = Append(@, Head(call.stream)),
                              !.chunks = Append(@, content), !.broke = Some(t)]
  /\ pc' = AfterConsumeFailure(call.attempt, config.retryAttempts)
  /\ outcome' = Caught("stream", t)
  /\ events' = Logged(events, "ERROR")
  /\ UNCHANGED <<messages, config, loggerEnabled, addLog, outside>>

\* stream(): the iteration of the stream throws
StreamFails(t) ==
  /\ pc = "consume"
  /\ pc' = AfterConsumeFailure(call.attempt, config.retryAttempts)
  /\ outcome' = Caught("stream", t)
  /\ obs' = [obs EXCEPT !.broke = Some(t)]
  /\ events' = Logged(events, "ERROR")
  /\ UNCHANGED <<messages, config, loggerEnabled, call, addLog, outside>>

\* for await (const chunk of stream): the loop ends when the iterator is done
IteratorNeverDone(stream) == FALSE
IteratorDone(stream) == stream = <<>>

\* stream(): the stream is exhausted; the rest of stream() runs
StreamEnds ==
  /\ pc = "consume"
  /\ IteratorDone(call.stream)
  /\ pc' = "done"
  /\ messages' = Push(messages, Msg("assistant", Str(call.fullContent)))
  /\ IF LogThrows("STREAM")
       THEN /\ outcome' = Caught("stream", SinkFailure)
            /\ events' = Logged(Logged(events, "STREAM"), "ERROR")
       ELSE /\ outcome' = Returned(call.fullContent)
            /\ events' = Logged(events, "STREAM")
  /\ UNCHANGED <<config, loggerEnabled, call, obs, addLog, outside>>

(***************************************************************************)
(* A second send() call on the same instance, started while the current    *)
(* call awaits the backend or a backoff timer.  Nothing in send() waits    *)
(* for the call in flight: the second call reads and writes this.messages  *)
(* as the first does.                                                      *)
(***************************************************************************)
\* A call in flight awaits the backend, a backoff timer or the next chunk:
\* the caller's other operations can run at each of these points.
InFlight == pc \in {"attempt", "backoff", "consume"}

\* send(options) of the second call, up to its first backend invocation
SecondSend(options) ==
  /\ InFlight
  /\ second.pc = "none"
  /\ ~IsSome(ValidateMessages)
  /\ Len(messages) < MaxMsgs
  /\ 1 <= config.retryAttempts
  /\ second' = [NoSecond EXCEPT !.pc = "attempt", !.payload = BuildMessages,
                                !.params = MergeOptions(options), !.attempt = 1]
  /\ obs' = [obs EXCEPT !.overlapped = TRUE]
  /\ UNCHANGED <<messages, config, loggerEnabled, pc, call, outcome, addLog, events,
                 sinkFaults, providers, registryCall, created, client, customProviders>>

\* makeRequest of the second call: the backend invocation throws
SecondBackendFails(t) ==
  /\ second.pc = "attempt"
  /\ LET lastError == CaughtError(second.lastError, t)
     IN second' =
          IF MayRetry(second.attempt, config.retryAttempts)
            THEN [second EXCEPT !.pc = "backoff", !.lastError = Some(lastError)]
            ELSE [second EXCEPT !.pc = "done", !.lastError = Some(lastError),
                                !.outcome = Caught("send", [isError |-> TRUE,
                                                            error |-> lastError])]
  /\ UNCHANGED <<messages, config, loggerEnabled, pc, call, outcome, obs, addLog, events,
                 sinkFaults, providers, registryCall, created, client, customProviders>>

\* makeRequest of the second call: the backoff timer fires
SecondBackoffElapses ==
  /\ second.pc = "backoff"
  /\ second' =
       IF second.attempt + 1 <= config.retryAttempts
         THEN [second EXCEPT !.pc = "attempt", !.attempt = @ + 1]
         ELSE [second EXCEPT !.pc = "done", !.attempt = @ + 1,
                             !.outcome = Caught("send", [isError |-> TRUE,
                                                         error |-> Get(second.lastError)])]
  /\ UNCHANGED <<messages, config, loggerEnabled, pc, call, outcome, obs, addLog, events,
                 sinkFaults, providers, registryCall, created, client, customProviders>>

\* send() of the second call: the backend answers; the rest of send() runs
SecondBackendAnswers(completion) ==
  /\ second.pc = "attempt"
  /\ IF ~IsSome(completion.choices)
       THEN /\ messages' = messages
            /\ second' = [second EXCEPT !.pc = "done",
                            !.outcome = Caught("send", ThrownError(UndefinedChoicesMessage))]
       ELSE LET content == CompletionContent(completion)
            IN /\ messages' = Push(messages, Msg("assistant", content))
               /\ second' = [second EXCEPT !.pc = "done", !.outcome =
                               IF content.kind # "string"
                                 THEN Caught("send", ThrownError(NotAStringMessage))
                                 ELSE Returned(ResponseOf(completion))]
  /\ UNCHANGED <<config, loggerEnabled, pc, call, outcome, obs, addLog, events,
                 sinkFaults, providers, registryCall, created, client, customProviders>>

\* the caller has awaited both calls
BothAwaited ==
  /\ pc = "done"
  /\ second.pc = "done"
  /\ second' = NoSecond
  /\ UNCHANGED <<messages, config, loggerEnabled, pc, call, outcome, obs, addLog, events,
                 sinkFaults, providers, registryCall, created, client, customProviders>>

(***************************************************************************)
(* Construction.  The constructor is an operation of its own here: before  *)
(* it has returned there is no instance (pc = "unbuilt"), and when it      *)
(* throws there is none either.                                            *)
(***************************************************************************)
KeyRequiredMessage == "API key is required and cannot be empty"

\* String.prototype.trim, over the white space the inputs hold
Whitespace == {" ", "\t", "\n"}

RECURSIVE TrimStart(_)
TrimStart(s) ==
  IF s # "" /\ Head(s) \in Whitespace THEN TrimStart(Tail(s)) ELSE s

RECURSIVE TrimEnd(_)
TrimEnd(s) ==
  IF s # "" /\ SubSeq(s, Len(s), Len(s)) \in Whitespace
    THEN TrimEnd(SubSeq(s, 1, Len(s) - 1))
    ELSE s

Trim(s) == TrimEnd(TrimStart(s))

\* config.apiKey, not trimmed
HasKeyUntrimmed(key) == IsSome(key) /\ Get(key) # ""
\* config.apiKey?.trim() is truthy
HasKey(key) == IsSome(key) /\ Trim(Get(key)) # ""

\* Array.prototype.join(', ') over the keys of a Map
RECURSIVE JoinIds(_)
JoinIds(entries) ==
  IF entries = <<>> THEN ""
  ELSE IF Len(entries) = 1 THEN entries[1].id
  ELSE entries[1].id \o ", " \o JoinIds(Tail(entries))

ProviderNotFoundMessage(providerId) ==
  "Provider '" \o providerId \o "' not found. Available providers: "
    \o JoinIds(GetAllProviders) \o ". "
    \o "Use ProviderRegistry.registerProvider() to add custom providers."

\* the state before any instance exists
Unbuilt ==
  /\ providers = InitialProviders
  /\ created = None
  /\ config = None
  /\ client = None
  /\ second = NoSecond
  /\ customProviders = <<>>
  /\ loggerEnabled = FALSE
  /\ messages = <<>>
  /\ pc = "unbuilt"
  /\ call = NoCall
  /\ outcome = NoOutcome
  /\ obs = NoObs
  /\ addLog = FreshLog
  /\ events = <<>>
  /\ sinkFaults = {}
  /\ registryCall = NoRegistryCall

\* the constructor throws: nothing is assigned to an instance
Aborted(e) ==
  /\ outcome' = Threw(e)
  /\ UNCHANGED <<messages, config, pc, call, addLog, events, sinkFaults, providers,
                 created, client, second, customProviders>>

\* new AIModel(cfg, logger), the caller having noted `seen` of its call
Construct(cfg, seen) ==
  /\ pc = "unbuilt"
  /\ obs' = [seen EXCEPT !.given = Some(cfg), !.registry = Some(providers)]
  /\ IF ~HasKey(cfg.apiKey)
       THEN /\ Aborted(NewError(KeyRequiredMessage))
            /\ UNCHANGED <<loggerEnabled, registryCall>>
       ELSE /\ loggerEnabled' = Nullish(cfg.debug, FALSE)
            /\ registryCall' = [RegistryCalled("getProvider", ProviderIdOf(cfg), cfg)
                                  EXCEPT !.returned = Some(FoundProvider(cfg))]
            /\ IF ~IsSome(FoundProvider(cfg))
                 THEN Aborted(NewError(ProviderNotFoundMessage(ProviderIdOf(cfg))))
                 ELSE IF Nullish(cfg.debug, FALSE) /\ "CONFIG" \in sinkFaults
                 THEN Aborted(NewError(SinkFailureMessage))
                 ELSE /\ config' = ConstructConfig(cfg)
                      /\ client' = ConstructClient(cfg)
                      /\ created' = Some(cfg)
                      /\ messages' = <<>>
                      /\ pc' = "idle"
                      /\ outcome' = Returned("instance")
                      /\ UNCHANGED <<call, addLog, events, sinkFaults, providers, second,
                                     customProviders>>

New(cfg) == Construct(cfg, [NoObs EXCEPT !.op = "new"])

\* a Partial<AIModelConfig>: a field that is absent is not spread
NoOverrides ==
  [apiKey |-> None, provider |-> None, model |-> None, temperature |-> None,
   maxTokens |-> None, systemPrompt |-> None, debug |-> None, timeout |-> None,
   retryAttempts |-> None]

\* { apiKey, provider: providerId, ...overrides }
SpreadOverrides(apiKey, providerId, overrides) ==
  LET base == ModelConfig(Some(apiKey), Some(providerId), None, None, None, None, None,
                          None, None)
  IN [f \in DOMAIN base |-> IF IsSome(overrides[f]) THEN Get(overrides[f]) ELSE base[f]]

CreateForProvider(providerId, apiKey, overrides) ==
  Construct(SpreadOverrides(apiKey, providerId, overrides),
            [NoObs EXCEPT !.op = "createForProvider", !.options = Some(overrides)])

\* String.prototype.toUpperCase
LowerLetters == "abcdefghijklmnopqrstuvwxyz"
UpperLetters == "ABCDEFGHIJKLMNOPQRSTUVWXYZ"

UpperChar(c) ==
  IF \E i \in 1..Len(LowerLetters) : SubSeq(LowerLetters, i, i) = c
    THEN LET i == CHOOSE i \in 1..Len(LowerLetters) : SubSeq(LowerLetters, i, i) = c
         IN SubSeq(UpperLetters, i, i)
    ELSE c

RECURSIVE ToUpperCase(_)
ToUpperCase(s) ==
  IF s = "" THEN "" ELSE UpperChar(SubSeq(s, 1, 1)) \o ToUpperCase(Tail(s))

\* process.env[name]: undefined when the variable is not set
EnvGet(env, name) == IF name \in DOMAIN env THEN env[name] ELSE None

GenericKeyName == "OPENAI_API_KEY"
SpecificKeyName(providerId) == ToUpperCase(providerId) \o "_API_KEY"

\* process.env[`${envKey}_API_KEY`] || process.env.OPENAI_API_KEY
EnvKeyGenericFirst(env, providerId) ==
  IF OrStr(EnvGet(env, GenericKeyName), "") # ""
    THEN EnvGet(env, GenericKeyName)
    ELSE EnvGet(env, SpecificKeyName(providerId))
EnvKey(env, providerId) ==
  IF OrStr(EnvGet(env, SpecificKeyName(providerId)), "") # ""
    THEN EnvGet(env, SpecificKeyName(providerId))
    ELSE EnvGet(env, GenericKeyName)

EnvKeyMissingMessage(providerId) ==
  SpecificKeyName(providerId) \o " or OPENAI_API_KEY environment variable is not set. "
    \o "Please set it to use the " \o providerId \o " provider."

\* AIModel.createFromEnv(provider, overrides), process.env being `env`
CreateFromEnv(provider, overrides, env) ==
  LET providerId == OrStr(provider, "openrouter")
      apiKey == EnvKey(env, providerId)
      seen == [NoObs EXCEPT !.op = "createFromEnv", !.options = Some(overrides),
                            !.env = Some(env), !.provider = provider]
  IN /\ pc = "unbuilt"
     /\ IF OrStr(apiKey, "") = ""
          THEN /\ obs' = seen
               /\ Aborted(NewError(EnvKeyMissingMessage(providerId)))
               /\ UNCHANGED <<loggerEnabled, registryCall>>
          ELSE Construct(SpreadOverrides(Get(apiKey), providerId, overrides), seen)

(***************************************************************************)
(* The specification: the caller uses the instance sequentially (one call  *)
(* in flight at a time, no other operation while it is in flight).         *)
(***************************************************************************)
CallerIdle == pc \in {"idle", "done"}

\* The caller notes the role and content it gave to an add* call.
Asked(role, content) ==
  addLog' = IF addLog.valid
              THEN [addLog EXCEPT !.calls = Append(@, [role |-> role, content |-> content])]
              ELSE addLog

Next ==
  \/ CallerIdle /\ \E t \in Texts, r \in UserRoles :
       AddMessage(Str(t), r) /\ Asked(r, Str(t))
  \/ CallerIdle /\ \E t \in Texts :
       AddUserMessage(Str(t)) /\ Asked("user", Str(t))
  \/ CallerIdle /\ \E t \in Texts :
       AddAssistantMessage(Str(t)) /\ Asked("assistant", Str(t))
  \/ CallerIdle /\ \E t \in Texts, r \in UserRoles :
       AddTextMessage(t, r) /\ Asked(r, Str(t))
  \/ CallerIdle /\ \E t \in Texts, u \in ImageUrls :
       AddImageMessage(t, u) /\ Asked("user", Arr(<<TextPart(t), ImagePart(u)>>))
  \/ CallerIdle /\ ClearMessages
  \/ CallerIdle /\ Reset
  \/ CallerIdle /\ \E p \in SystemPrompts : SetSystemPrompt(p)
  \/ CallerIdle /\ \E partial \in UpdateInputs : UpdateConfig(partial)
  \/ CallerIdle /\ \E op \in ArrayEdits : EditSnapshotArray(op)
  \/ CallerIdle /\ \E op \in EntryEdits, i \in 1..MaxMsgs : EditSnapshotEntry(op, i)
  \/ \E o \in OptionInputs : Send(o)
  \/ \E o \in OptionInputs : Stream(o)
  \/ \E t \in BackendFailures : BackendFails(t)
  \/ BackoffElapses
  \/ \E c \in Completions : BackendAnswers(c)
  \/ \E chunks \in StreamInputs : BackendOpensStream(chunks)
  \/ StreamChunk
  \/ \E t \in CallbackFailures : StreamChunkCallbackThrows(t)
  \/ \E t \in BackendFailures : StreamFails(t)
  \/ StreamEnds

Spec == Init /\ [][Next]_vars

(***************************************************************************)
(* The same instance, used by a caller that writes 'system' into the role  *)
(* of an entry of getMessages() (a value of Message.role) between calls.   *)
(***************************************************************************)
AliasNext ==
  \/ CallerIdle /\ \E t \in Texts :
       AddUserMessage(Str(t)) /\ Asked("user", Str(t))
  \/ CallerIdle /\ \E p \in SystemPrompts : SetSystemPrompt(p)
  \/ CallerIdle /\ \E op \in SystemEdits, i \in 1..MaxMsgs : EditSnapshotEntry(op, i)
  \/ Send(NoOptions)
  \/ \E t \in BackendFailures : BackendFails(t)
  \/ BackoffElapses
  \/ \E c \in Completions : BackendAnswers(c)

SpecAlias == Init /\ [][AliasNext]_vars

(***************************************************************************)
(* Request planning: instances with and without a configured model, calls  *)
(* with and without per-call options.  The caller keeps its constructor    *)
(* argument.                                                               *)
(***************************************************************************)
PlanConstructorInputs ==
  { ModelConfig(Some("k"), Some("openai"), None, None, None, None, None, None, Some(1)),
    ModelConfig(Some("k"), Some("openai"), Some("m1"), Some(0), Some(50), None, None, None,
                Some(1)) }

PlanOptionInputs ==
  { NoOptions,
    [model |-> None, temperature |-> Some(12), maxTokens |-> None, stream |-> Some(FALSE)],
    [model |-> Some("m9"), temperature |-> Some(0), maxTokens |-> Some(20),
     stream |-> Some(TRUE)] }

PlanInit == \E cfg \in PlanConstructorInputs : Constructed(cfg, {}, TRUE)

PlanNext ==
  \/ CallerIdle /\ \E t \in Texts :
       AddUserMessage(Str(t)) /\ Asked("user", Str(t))
  \/ CallerIdle /\ ClearMessages
  \/ \E o \in PlanOptionInputs : Send(o)
  \/ \E o \in PlanOptionInputs : Stream(o)
  \/ \E t \in BackendFailures : BackendFails(t)
  \/ \E c \in Completions : BackendAnswers(c)
  \/ \E chunks \in StreamInputs : BackendOpensStream(chunks)
  \/ StreamChunk
  \/ \E t \in BackendFailures : StreamFails(t)
  \/ StreamEnds

SpecPlan == PlanInit /\ [][PlanNext]_vars

(***************************************************************************)
(* Diagnostics: instances built with debug on or off and with a logger     *)
(* that throws on some event types.                                        *)
(***************************************************************************)
SinkConstructorInputs ==
  { ModelConfig(Some("k"), Some("openai"), None, None, None, None, dbg, None, Some(2)) :
      dbg \in {None, Some(TRUE)} }

SinkFaultInputs == { {}, {"REQUEST"}, {"ERROR"}, {"RESPONSE", "STREAM"} }

SinkInit ==
  \E cfg \in SinkConstructorInputs, faults \in SinkFaultInputs :
    Constructed(cfg, faults, FALSE)

SinkNext ==
  \/ CallerIdle /\ \E t \in Texts :
       AddUserMessage(Str(t)) /\ Asked("user", Str(t))
  \/ CallerIdle /\ ClearMessages
  \/ Send(NoOptions)
  \/ Stream(NoOptions)
  \/ \E t \in BackendFailures : BackendFails(t)
  \/ BackoffElapses
  \/ \E c \in Completions : BackendAnswers(c)
  \/ \E chunks \in StreamInputs : BackendOpensStream(chunks)
  \/ StreamChunk
  \/ \E t \in CallbackFailures : StreamChunkCallbackThrows(t)
  \/ \E t \in BackendFailures : StreamFails(t)
  \/ StreamEnds

SpecSink == SinkInit /\ [][SinkNext]_vars

(***************************************************************************)
(* The provider registry, used by any number of callers.                   *)
(***************************************************************************)
RegistryIds == {"", "openai", "my-ai"}

ProfileInputs ==
  { Profile("My AI Service", "https://api.my-ai.com/v1", "my-model-v1", None),
    Profile("", "https://api.my-ai.com/v1", "my-model-v1", None),
    Profile("My AI Service", "", "my-model-v1", None),
    Profile("My AI Service", "https://api.my-ai.com/v1", "", None) }

PartialInputs ==
  { NoProfileChanges,
    [NoProfileChanges EXCEPT !.defaultModel = Some("my-model-v2")],
    [NoProfileChanges EXCEPT !.baseURL = Some("https://proxy.example/v1"),
                             !.headers = Some(Some({"X-Title"}))] }

RegistryNext ==
  \/ \E id \in RegistryIds, profile \in ProfileInputs : RegisterProvider(id, profile)
  \/ \E id \in RegistryIds, partial \in PartialInputs : UpdateProvider(id, partial)
  \/ \E id \in RegistryIds : RemoveProvider(id)

SpecRegistry == Init /\ [][RegistryNext]_vars

\* The registry under updates that carry an empty field.
BlankIds == {"openai", "my-ai"}

BlankProfileInputs ==
  { Profile("My AI Service", "https://api.my-ai.com/v1", "my-model-v1", None),
    Profile("My AI Service", "", "my-model-v1", None) }

BlankPartialInputs ==
  { [NoProfileChanges EXCEPT !.defaultModel = Some("my-model-v2")],
    [NoProfileChanges EXCEPT !.baseURL = Some("")],
    [NoProfileChanges EXCEPT !.name = Some(""), !.defaultModel = Some("")] }

BlankNext ==
  \/ \E id \in BlankIds, profile \in BlankProfileInputs : RegisterProvider(id, profile)
  \/ \E id \in BlankIds, partial \in BlankPartialInputs : UpdateProvider(id, partial)
  \/ \E id \in BlankIds : RemoveProvider(id)

SpecRegistryBlank == Init /\ [][BlankNext]_vars

\* The ConfigManager and the registry used side by side.
ManagerIds == {"openai", "my-ai"}

ManagerProfileInputs ==
  { Profile("My AI Service", "https://api.my-ai.com/v1", "my-model-v1", None),
    Profile("My AI Service", "", "my-model-v1", None) }

ManagerPartialInputs ==
  { [NoProfileChanges EXCEPT !.defaultModel = Some("my-model-v2")] }

ManagerNext ==
  \/ \E id \in ManagerIds, profile \in ManagerProfileInputs :
       ManagerRegisterProvider(id, profile)
  \/ \E id \in ManagerIds, profile \in ManagerProfileInputs : RegisterProvider(id, profile)
  \/ \E id \in ManagerIds, partial \in ManagerPartialInputs : UpdateProvider(id, partial)
  \/ \E id \in ManagerIds : RemoveProvider(id)

SpecManager == Init /\ [][ManagerNext]_vars

\* Temperatures (in tenths) and token limits inside and outside their ranges,
\* given to the constructor, to updateConfig and with a call.
RangeInputs ==
  { ModelConfig(Some("k"), Some("openai"), None, None, None, None, None, None, None),
    ModelConfig(Some("k"), Some("openai"), None, Some(30), Some(-5), None, None, None, None) }

RangeUpdates ==
  { [NoChanges EXCEPT !.temperature = Some(20), !.maxTokens = Some(1)],
    [NoChanges EXCEPT !.temperature = Some(-1)],
    [NoChanges EXCEPT !.maxTokens = Some(0)] }

RangeOptions ==
  { NoOptions,
    [NoOptions EXCEPT !.temperature = Some(0), !.maxTokens = Some(50)],
    [NoOptions EXCEPT !.temperature = Some(21)],
    [NoOptions EXCEPT !.maxTokens = Some(-5)] }

RangeInit == \E cfg \in RangeInputs : Constructed(cfg, {}, TRUE)

RangeNext ==
  \/ CallerIdle /\ \E t \in Texts : AddUserMessage(Str(t)) /\ Asked("user", Str(t))
  \/ CallerIdle /\ ClearMessages
  \/ CallerIdle /\ \E partial \in RangeUpdates : UpdateConfig(partial)
  \/ \E o \in RangeOptions : Send(o)
  \/ \E o \in RangeOptions : Stream(o)
  \/ BackendAnswers([choices |-> Some(<<Choice(Some(Str("4")))>>),
                     usage |-> Some(Usage(Some(2), Some(1), Some(3))),
                     model |-> "gpt-3.5-turbo"])
  \/ BackendOpensStream(<<Some("4")>>)
  \/ StreamChunk
  \/ StreamEnds

SpecRanges == RangeInit /\ [][RangeNext]_vars

\* Sequential use under a backend that answers or fails every invocation,
\* timers that fire and streams that deliver their next chunk or their end.
BackendResponds ==
  \/ \E t \in BackendFailures : BackendFails(t)
  \/ \E c \in Completions : BackendAnswers(c)
  \/ \E chunks \in StreamInputs : BackendOpensStream(chunks)

StreamDelivers == StreamChunk \/ StreamEnds

LiveNext ==
  \/ CallerIdle /\ \E t \in Texts : AddUserMessage(Str(t)) /\ Asked("user", Str(t))
  \/ CallerIdle /\ ClearMessages
  \/ CallerIdle /\ \E partial \in UpdateInputs : UpdateConfig(partial)
  \/ Send(NoOptions)
  \/ Stream(NoOptions)
  \/ BackendResponds
  \/ BackoffElapses
  \/ StreamDelivers
  \/ \E t \in CallbackFailures : StreamChunkCallbackThrows(t)
  \/ \E t \in BackendFailures : StreamFails(t)

SpecLive ==
  /\ Init /\ [][LiveNext]_vars
  /\ WF_vars(BackendResponds)
  /\ WF_vars(BackoffElapses)
  /\ WF_vars(StreamDelivers)

\* An instance in use while its provider id is registered over, updated and
\* removed in the registry; the backend answers every request.
FixedInputs ==
  { ModelConfig(Some("k"), Some("openai"), None, None, None, None, None, None, None),
    ModelConfig(Some("k"), Some("openai"), Some("m1"), None, None, None, None, None, None) }

FixedIds == {"openai"}

FixedProfiles ==
  { Profile("Mine", "https://mine.example/v1", "mine-1", Some({"X-Mine"})) }

FixedPartials ==
  { [NoProfileChanges EXCEPT !.baseURL = Some("https://proxy.example/v1")],
    [NoProfileChanges EXCEPT !.defaultModel = Some("other-1"),
                             !.headers = Some(Some({"X-Other"}))] }

FixedInit == \E cfg \in FixedInputs : Constructed(cfg, {}, TRUE)

FixedNext ==
  \/ \E id \in FixedIds, profile \in FixedProfiles : RegisterProvider(id, profile)
  \/ \E id \in FixedIds, partial \in FixedPartials : UpdateProvider(id, partial)
  \/ \E id \in FixedIds : RemoveProvider(id)
  \/ CallerIdle /\ \E t \in Texts : AddUserMessage(Str(t)) /\ Asked("user", Str(t))
  \/ CallerIdle /\ ClearMessages
  \/ Send(NoOptions)
  \/ Stream(NoOptions)
  \/ BackendAnswers([choices |-> Some(<<Choice(Some(Str("4")))>>),
                     usage |-> Some(Usage(Some(2), Some(1), Some(3))),
                     model |-> "gpt-3.5-turbo"])
  \/ BackendOpensStream(<<Some("4")>>)
  \/ StreamChunk
  \/ StreamEnds

SpecFixed == FixedInit /\ [][FixedNext]_vars

\* Calls that overlap: a second send() starts while a call is in flight.
OverlapCompletions ==
  { [choices |-> Some(<<Choice(Some(Str("4")))>>),
     usage |-> Some(Usage(Some(2), Some(1), Some(3))), model |-> "gpt-3.5-turbo"],
    [choices |-> Some(<<Choice(Some(Str("5")))>>),
     usage |-> Some(Usage(Some(2), Some(1), Some(3))), model |-> "gpt-3.5-turbo"],
    [choices |-> None, usage |-> None, model |-> "gpt-3.5-turbo"] }

NoneOverlaps == second.pc = "none"

OverlapNext ==
  \/ CallerIdle /\ NoneOverlaps /\ \E t \in Texts :
       AddUserMessage(Str(t)) /\ Asked("user", Str(t))
  \/ CallerIdle /\ NoneOverlaps /\ ClearMessages
  \/ NoneOverlaps /\ Send(NoOptions)
  \/ NoneOverlaps /\ Stream(NoOptions)
  \/ \E t \in BackendFailures : BackendFails(t)
  \/ BackoffElapses
  \/ \E c \in OverlapCompletions : BackendAnswers(c)
  \/ \E chunks \in StreamInputs : BackendOpensStream(chunks)
  \/ StreamChunk
  \/ StreamEnds
  \/ SecondSend(NoOptions)
  \/ \E t \in BackendFailures : SecondBackendFails(t)
  \/ SecondBackoffElapses
  \/ \E c \in OverlapCompletions : SecondBackendAnswers(c)
  \/ BothAwaited

SpecOverlap == Init /\ [][OverlapNext]_vars

\* The quick message methods.
MessageLists ==
  { <<>>,
    <<[role |-> "user", content |-> "b"]>>,
    <<[role |-> "assistant", content |-> "b"]>>,
    <<[role |-> "assistant", content |-> "b"], [role |-> "user", content |-> "a"]>> }

QuickNext ==
  \/ CallerIdle /\ \E t \in Texts : AddUserMessage(Str(t)) /\ Asked("user", Str(t))
  \/ CallerIdle /\ ClearMessages
  \/ \E t \in Texts, o \in OptionInputs : SendTextMessage(t, o)
  \/ \E t \in Texts, u \in ImageUrls : SendImageMessage(t, u, NoOptions)
  \/ \E list \in MessageLists : SendMultipleMessages(list, NoOptions)
  \/ SendChained
  \/ \E t \in BackendFailures : BackendFails(t)
  \/ BackoffElapses
  \/ \E c \in Completions : BackendAnswers(c)

SpecQuick == Init /\ [][QuickNext]_vars

\* Per-call options that hold the values 0 and ''.
FalsyOptionInputs ==
  { [model |-> None, temperature |-> Some(0), maxTokens |-> None, stream |-> None],
    [model |-> None, temperature |-> None, maxTokens |-> Some(0), stream |-> None],
    [model |-> Some(""), temperature |-> Some(0), maxTokens |-> Some(20),
     stream |-> None],
    [model |-> Some("m9"), temperature |-> Some(12), maxTokens |-> Some(20),
     stream |-> None] }

FalsyOptionsNext ==
  \/ CallerIdle /\ \E t \in Texts : AddUserMessage(Str(t)) /\ Asked("user", Str(t))
  \/ CallerIdle /\ ClearMessages
  \/ \E o \in FalsyOptionInputs : Send(o)
  \/ \E o \in FalsyOptionInputs : Stream(o)
  \/ \E t \in BackendFailures : BackendFails(t)
  \/ \E c \in Completions : BackendAnswers(c)
  \/ \E chunks \in StreamInputs : BackendOpensStream(chunks)
  \/ StreamChunk
  \/ StreamEnds

SpecFalsyOptions == PlanInit /\ [][FalsyOptionsNext]_vars

\* Backends whose usage block leaves total_tokens out, or counts more in it
\* than the prompt and the completion.
UsageCompletions ==
  { [choices |-> Some(<<Choice(Some(Str("4")))>>),
     usage |-> Some(Usage(Some(2), Some(1), None)), model |-> "my-model-v1"],
    [choices |-> Some(<<Choice(Some(Str("4")))>>),
     usage |-> Some(Usage(Some(2), Some(1), Some(5))), model |-> "my-model-v1"] }

UsageNext ==
  \/ CallerIdle /\ \E t \in Texts : AddUserMessage(Str(t)) /\ Asked("user", Str(t))
  \/ CallerIdle /\ ClearMessages
  \/ \E o \in OptionInputs : Send(o)
  \/ \E t \in BackendFailures : BackendFails(t)
  \/ BackoffElapses
  \/ \E c \in Completions \cup UsageCompletions : BackendAnswers(c)

SpecUsage == Init /\ [][UsageNext]_vars

\* The settings of an instance: updateConfig and enableDebug between calls.
SettingsConstructorInputs ==
  { ModelConfig(Some("k"), Some("openai"), None, None, None, None, None, None, Some(1)),
    ModelConfig(Some("k"), None, None, None, None, None, Some(TRUE), Some(5000),
                Some(1)) }

\* a Partial of the configuration; the last one is what a caller without the
\* type checker can pass
SettingsInputs ==
  { [NoOverrides EXCEPT !.model = Some("m2")],
    [NoOverrides EXCEPT !.temperature = Some(3), !.maxTokens = Some(20)],
    [NoOverrides EXCEPT !.timeout = Some(100)],
    [NoOverrides EXCEPT !.debug = Some(TRUE)],
    [NoOverrides EXCEPT !.debug = Some(FALSE)],
    [NoOverrides EXCEPT !.apiKey = Some("other"), !.provider = Some("anthropic")] }

SettingsInit == \E cfg \in SettingsConstructorInputs : Constructed(cfg, {}, TRUE)

SettingsNext ==
  \/ CallerIdle /\ \E t \in Texts : AddUserMessage(Str(t)) /\ Asked("user", Str(t))
  \/ CallerIdle /\ \E partial \in SettingsInputs :
       UpdateConfigNoting(partial, [NoObs EXCEPT !.op = "updateConfig",
                                                 !.options = Some(partial),
                                                 !.before = messages,
                                                 !.configBefore = Some(config)])
  \/ CallerIdle /\ \E enable \in BOOLEAN : EnableDebug(enable)
  \/ Send(NoOptions)
  \/ \E t \in BackendFailures : BackendFails(t)
  \/ \E c \in Completions : BackendAnswers(c)

SpecSettings == SettingsInit /\ [][SettingsNext]_vars

\* Operations of the caller that run while a call is in flight.
\* updateConfig, setSystemPrompt and addMessage, called while a call is in flight
UpdateConfigMeanwhile(partial) ==
  /\ InFlight
  /\ config' = MergeConfig(config, partial)
  /\ UNCHANGED <<messages, loggerEnabled, pc, call, outcome, obs, addLog, events, outside>>

SetSystemPromptMeanwhile(prompt) ==
  /\ InFlight
  /\ config' = [config EXCEPT !.systemPrompt = prompt]
  /\ UNCHANGED <<messages, loggerEnabled, pc, call, outcome, obs, addLog, events, outside>>

AddMessageMeanwhile(content, role) ==
  /\ InFlight
  /\ Len(messages) < MaxMsgs
  /\ messages' = Push(messages, Msg(role, content))
  /\ UNCHANGED <<config, loggerEnabled, pc, call, outcome, obs, addLog, events, outside>>

MeanwhileInputs == { [NoChanges EXCEPT !.retryAttempts = Some(n)] : n \in {1, MaxAttempts} }
  \cup { [NoChanges EXCEPT !.model = Some("m2"), !.temperature = Some(3),
                            !.maxTokens = Some(20)] }

InterleavedNext ==
  \/ CallerIdle /\ \E t \in Texts : AddUserMessage(Str(t)) /\ Asked("user", Str(t))
  \/ CallerIdle /\ ClearMessages
  \/ Send(NoOptions)
  \/ Stream(NoOptions)
  \/ \E t \in BackendFailures : BackendFails(t)
  \/ BackoffElapses
  \/ \E c \in Completions : BackendAnswers(c)
  \/ \E chunks \in StreamInputs : BackendOpensStream(chunks)
  \/ StreamChunk
  \/ StreamEnds
  \/ \E partial \in MeanwhileInputs : UpdateConfigMeanwhile(partial)
  \/ \E p \in SystemPrompts : SetSystemPromptMeanwhile(p)
  \/ \E t \in Texts : AddMessageMeanwhile(Str(t), "user")

SpecInterleaved == Init /\ [][InterleavedNext]_vars

\* Construction: instances are made while providers come and go.
KeyInputs == {None, Some(""), Some(" \t\n"), Some("k"), Some(" k ")}
ProviderInputs == {None, Some(""), Some("my-ai")}

NewInputs ==
  { ModelConfig(key, prov, None, None, None, None, None, None, None) :
      key \in KeyInputs, prov \in ProviderInputs }
    \cup { ModelConfig(Some("k"), Some("openai"), None, None, None, None, Some(TRUE),
                       Some(5000), None) }

OverrideInputs ==
  { NoOverrides, [NoOverrides EXCEPT !.apiKey = Some(Some("ok"))] }

\* process.env: the provider's own variable and the generic one
Env(own, generic) == ("MY-AI_API_KEY" :> own) @@ ("OPENAI_API_KEY" :> generic)

EnvInputs ==
  { Env(own, generic) : own \in {None, Some(""), Some("sk")},
                         generic \in {None, Some(""), Some("gk")} }

EnvProviderInputs == {None, Some("my-ai")}

ConstructProfileInputs ==
  { Profile("My AI Service", "https://api.my-ai.com/v1", "my-model-v1", None) }

ConstructNext ==
  \/ \E cfg \in NewInputs : New(cfg)
  \/ \E key \in {"k", " "} : CreateForProvider("my-ai", key, NoOverrides)
  \/ \E provider \in EnvProviderInputs, overrides \in OverrideInputs, env \in EnvInputs :
       CreateFromEnv(provider, overrides, env)
  \/ \E profile \in ConstructProfileInputs : RegisterProvider("my-ai", profile)
  \/ \E id \in {"openrouter", "my-ai"} : RemoveProvider(id)

SpecConstruct == Unbuilt /\ [][ConstructNext]_vars

\* The registry, used by callers that also edit what getAllProviders() returned.
RegistryAliasNext ==
  \/ \E id \in RegistryIds, profile \in ProfileInputs : RegisterProvider(id, profile)
  \/ \E id \in RegistryIds : RemoveProvider(id)
  \/ \E op \in MapEdits, id \in RegistryIds : EditProvidersMap(op, id)
  \/ \E id \in RegistryIds, field \in ProfileEdits : EditProvidersProfile(id, field)

SpecRegistryAlias == Init /\ [][RegistryAliasNext]_vars

(***************************************************************************)
(* Properties.                                                             *)
(***************************************************************************)
\* a send()/stream() call was made and no caller operation followed it yet
Dispatched == call.kind \in {"send", "stream"}
Ended == Dispatched /\ pc = "done"
Limit == config.retryAttempts

\* C1: after construction, clearMessages or reset, a sequence of add* calls
\* leaves getMessages() equal to the roles and contents given, one entry per
\* call, in call order, duplicates kept.
C1_AddsInCallOrder == addLog.valid => GetMessages.items = addLog.calls

C1_Witness ==
  /\ addLog.valid
  /\ Len(messages) = 2
  /\ messages[1] = Msg("assistant", Str("a"))
  /\ messages[2] = Msg("user", Arr(<<TextPart("a"), ImagePart("u")>>))

C1_WitnessDuplicates ==
  /\ addLog.valid
  /\ Len(messages) = 2
  /\ messages[1] = messages[2]

\* C2: a send()/stream() call that ends by throwing leaves the message
\* history as it was when the call started.
C2_FailedCallLeavesHistory ==
  (Ended /\ outcome.status = "threw") => messages = obs.before

\* what the backend reported for a usage field, zero when it reported none
Reported(completion, f) ==
  IF IsSome(completion.usage) /\ IsSome(Get(completion.usage)[f])
    THEN Get(Get(completion.usage)[f])
    ELSE 0

\* the content of the backend's completion, if it has one
HasContent(completion) ==
  /\ Len(Get(completion.choices)) > 0
  /\ IsSome(Get(completion.choices)[1].content)

\* C3: a send() that returns appended exactly one assistant message whose
\* content is the returned content ('' when the backend gave none), and the
\* returned usage is what the backend reported (zero where it reported none).
C3_SuccessfulSend ==
  (Ended /\ call.kind = "send" /\ outcome.status = "returned") =>
    LET response == Get(outcome.value)
        completion == Get(obs.answer)
    IN /\ messages = Append(obs.before, Msg("assistant", response.content))
       /\ response.content =
            IF HasContent(completion) THEN Get(Get(completion.choices)[1].content)
            ELSE Str("")
       /\ response.usage.promptTokens = Reported(completion, "prompt_tokens")
       /\ response.usage.completionTokens = Reported(completion, "completion_tokens")
       /\ response.usage.totalTokens = Reported(completion, "total_tokens")
       /\ (obs.before = <<Msg("user", Str("a"))>> =>
             /\ Len(GetMessages.items) = 2
             /\ GetMessages.items[1].role = "user"
             /\ GetMessages.items[2].role = "assistant")

C3_Witness ==
  /\ Ended /\ call.kind = "send" /\ outcome.status = "returned"
  /\ config.systemPrompt = "You are terse."
  /\ obs.before = <<Msg("user", Str("a"))>>
  /\ Get(outcome.value).content = Str("4")
  /\ Get(outcome.value).usage = [promptTokens |-> 2, completionTokens |-> 1, totalTokens |-> 3]

C3_WitnessPartialUsage ==
  /\ Ended /\ call.kind = "send" /\ outcome.status = "returned"
  /\ Get(outcome.value).content = Str("")
  /\ Get(outcome.value).usage = [promptTokens |-> 10, completionTokens |-> 0, totalTokens |-> 10]

\* C4: when the operation fails k times and then succeeds, k < n, it was
\* invoked k + 1 times, never more than n times, and k retries were announced,
\* with delays 2000, 4000, 8000, ... in that order.
C4_RetryThenSuccess ==
  IsSome(obs.answer) =>
    LET k == Len(obs.thrown)
    IN /\ k < Limit
       /\ obs.invocations = k + 1
       /\ obs.invocations <= Limit
       /\ Len(obs.retries) = k
       /\ \A i \in 1..k :
            obs.retries[i] = IF i = 1 THEN 2000 ELSE 2 * obs.retries[i - 1]
       /\ (call.kind = "stream" /\ pc = "consume" =>
             call.stream = SubSeq(Get(obs.answer), Len(obs.arrived) + 1, Len(Get(obs.answer))))

C4_Witness ==
  /\ IsSome(obs.answer)
  /\ Limit = 3
  /\ Len(obs.thrown) = 2
  /\ obs.invocations = 3
  /\ obs.retries = <<2000, 4000>>

\* C5: with n >= 1 and an operation that fails every time, whatever it throws,
\* the operation is invoked exactly n times, no delay follows the n-th failure,
\* and the call ends with an error; the loop never ends before n invocations.
C5_RetryExhaustion ==
  (Dispatched /\ obs.validated /\ Limit >= 1 /\ ~IsSome(obs.answer)) =>
    /\ obs.invocations <= Limit
    /\ Len(obs.retries) <= Limit - 1
    /\ (pc = "backoff" => Len(obs.thrown) < Limit)
    /\ (pc = "done" =>
          /\ outcome.status = "threw"
          /\ obs.invocations = Limit
          /\ Len(obs.thrown) = Limit
          /\ Len(obs.retries) = Limit - 1)

C5_Witness ==
  /\ Ended /\ obs.validated /\ ~IsSome(obs.answer)
  /\ Limit = 3
  /\ obs.invocations = 3
  /\ obs.thrown = <<ThrownValue("boom"), ThrownError("rate limit"), ThrownValue("boom")>>
  /\ outcome.status = "threw"

\* the call ended because every attempt failed
Exhausted == Ended /\ obs.validated /\ ~IsSome(obs.answer) /\ obs.thrown # <<>>
LastThrown == obs.thrown[Len(obs.thrown)]
\* the message of the error a thrown value stands for
TextOf(t) == IF t.isError THEN t.error.message ELSE t.value

PromptAtStart == Get(obs.configBefore).systemPrompt
EmptyAtStart == Len(obs.before) = 0 /\ PromptAtStart = ""
NoUserAtStart == \A i \in 1..Len(obs.before) : obs.before[i].role # "user"

\* C7: a call on an empty conversation (no messages, empty system prompt)
\* fails with the empty-conversation error; a call on a conversation that has
\* entries but none with role user fails with the no-user-turn error.
C7_DispatchValidation ==
  Dispatched =>
    /\ EmptyAtStart =>
         /\ pc = "done"
         /\ outcome = Threw(NewError(EmptyConversationMessage))
    /\ (~EmptyAtStart /\ NoUserAtStart) =>
         /\ pc = "done"
         /\ outcome = Threw(NewError(NoUserTurnMessage))

C7_WitnessEmpty ==
  /\ Dispatched /\ EmptyAtStart
  /\ outcome = Threw(NewError(EmptyConversationMessage))

C7_Witness ==
  /\ Dispatched /\ call.kind = "stream"
  /\ PromptAtStart = "You are terse."
  /\ obs.before = <<Msg("assistant", Str("a"))>>
  /\ outcome = Threw(NewError(NoUserTurnMessage))

\* C8: a call that fails dispatch validation invokes the backend zero times,
\* announces no retry and waits for no backoff, and leaves the history, the
\* system prompt and the configuration as they were.
C8_ValidationFailureIsInert ==
  (Dispatched /\ (EmptyAtStart \/ NoUserAtStart)) =>
    /\ pc = "done"
    /\ outcome.status = "threw"
    /\ obs.invocations = 0
    /\ obs.retries = <<>>
    /\ obs.thrown = <<>>
    /\ messages = obs.before
    /\ GetSystemPrompt = PromptAtStart
    /\ config = Get(obs.configBefore)

C8_Witness ==
  /\ Dispatched /\ call.kind = "send"
  /\ ~EmptyAtStart /\ NoUserAtStart
  /\ Len(obs.before) = 2
  /\ Limit = 3
  /\ pc = "done"

\* the non-empty text deltas of a sequence of chunks, in order
RECURSIVE Fragments(_)
Fragments(chunks) ==
  IF chunks = <<>> THEN <<>>
  ELSE IF IsSome(Head(chunks)) /\ Get(Head(chunks)) # ""
    THEN <<Get(Head(chunks))>> \o Fragments(Tail(chunks))
    ELSE Fragments(Tail(chunks))

RECURSIVE Concat(_)
Concat(strs) == IF strs = <<>> THEN "" ELSE Head(strs) \o Concat(Tail(strs))

\* C9: in a stream() call, onChunk is invoked once for each chunk with a
\* non-empty delta, in arrival order, and for no other chunk; the history is
\* untouched while chunks arrive; a stream() that returns has consumed every
\* chunk, returns the concatenation of the fragments and appended exactly one
\* assistant message holding it.
C9_StreamingAccumulation ==
  (Dispatched /\ call.kind = "stream" /\ IsSome(obs.answer)) =>
    /\ obs.chunks = Fragments(obs.arrived)
    /\ (pc = "consume" => messages = obs.before)
    /\ (pc = "done" /\ outcome.status = "returned" =>
          /\ obs.arrived = Get(obs.answer)
          /\ Get(outcome.value) = Concat(obs.chunks)
          /\ messages = Append(obs.before, Msg("assistant", Str(Get(outcome.value)))))

C9_WitnessHelloWorld ==
  /\ Ended /\ call.kind = "stream" /\ outcome.status = "returned"
  /\ obs.chunks = <<"Hel", "lo", " world">>
  /\ Get(outcome.value) = "Hello world"
  /\ messages = Append(obs.before, Msg("assistant", Str("Hello world")))

C9_Witness ==
  /\ Ended /\ call.kind = "stream" /\ outcome.status = "returned"
  /\ obs.arrived = <<Some("x"), None, Some(""), Some("y")>>
  /\ obs.chunks = <<"x", "y">>
  /\ Get(outcome.value) = "xy"
  /\ messages[Len(messages)] = Msg("assistant", Str("xy"))

\* the caller edits the value getMessages() returned
EditsSnapshot ==
  \/ \E op \in ArrayEdits : EditSnapshotArray(op)
  \/ \E op \in EntryEdits, i \in 1..MaxMsgs : EditSnapshotEntry(op, i)

\* C10: editing the value getMessages() returned changes neither what
\* getMessages() returns later nor what a later call dispatches.
C10_SnapshotIsolation ==
  [][EditsSnapshot => (GetMessages' = GetMessages /\ BuildMessages' = BuildMessages)]_vars

\* the fields of the configuration that clearMessages() and reset() leave alone
KeepsRequestSettings(before, after) ==
  \A f \in {"model", "temperature", "maxTokens", "retryAttempts"} : after[f] = before[f]

\* C11: clearMessages() leaves getMessages() empty and getSystemPrompt() as
\* it was; reset() leaves getMessages() empty and getSystemPrompt() equal to
\* ""; neither changes model, temperature, maxTokens or retryAttempts.
C11_ClearAndReset ==
  /\ obs.op = "clearMessages" =>
       /\ GetMessages.items = <<>>
       /\ GetSystemPrompt = Get(obs.configBefore).systemPrompt
       /\ KeepsRequestSettings(Get(obs.configBefore), config)
  /\ obs.op = "reset" =>
       /\ GetMessages.items = <<>>
       /\ GetSystemPrompt = ""
       /\ KeepsRequestSettings(Get(obs.configBefore), config)

C11_WitnessClear ==
  /\ obs.op = "clearMessages"
  /\ Len(obs.before) = 2
  /\ GetSystemPrompt = "You are terse."

C11_Witness ==
  /\ obs.op = "reset"
  /\ Len(obs.before) = 2
  /\ Get(obs.configBefore).systemPrompt = "You are terse."
  /\ Get(obs.configBefore).retryAttempts = 2

SystemEntries(msgs) == {i \in 1..Len(msgs) : msgs[i].role = "system"}

\* the linearization of a history under a system prompt
Linearized(prompt, msgs) ==
  (IF prompt # "" THEN <<Msg("system", Str(prompt))>> ELSE <<>>) \o msgs

\* C12: the payload dispatched is [the system message of the prompt, iff the
\* prompt is non-empty] followed by the stored messages in insertion order;
\* it holds at most one system-role message, which is first; the stored
\* list never holds a system-role message.
C12_PayloadLinearization ==
  /\ (Dispatched /\ obs.validated) =>
       /\ call.payload = Linearized(Get(obs.configBefore).systemPrompt, obs.before)
       /\ Cardinality(SystemEntries(call.payload)) <= 1
       /\ SystemEntries(call.payload) \subseteq {1}
  /\ SystemEntries(messages) = {}

\* the first part of C12 alone
C12_PayloadIsPromptThenHistory ==
  (Dispatched /\ obs.validated) =>
    call.payload = Linearized(Get(obs.configBefore).systemPrompt, obs.before)

\* a request was handed to the backend in the current call
Requested == Dispatched /\ IsSome(obs.request)

\* option values within the ranges of the configuration fields they override
InRange(o) ==
  /\ IsSome(o.model) => Get(o.model) # ""
  /\ IsSome(o.maxTokens) => Get(o.maxTokens) > 0

\* the profile of the provider the constructor resolved
ResolvedProfile == Get(MapGet(providers, OrStr(Get(created).provider, "openrouter")))

C13_WitnessConfiguredModel ==
  /\ Requested /\ IsSome(created)
  /\ Get(created).model = Some("m1")
  /\ ResolvedProfile.defaultModel = "gpt-3.5-turbo"
  /\ Get(obs.options) = NoOptions
  /\ Get(obs.request).model = "m1"
  /\ Get(obs.request).temperature = 0

\* C14: a call leaves getConfig() as it was before the call, however it
\* ends, and a send() without options that follows a call with options
\* dispatches the instance's model, temperature and maxTokens.
C14_OverrideIsPerCall ==
  /\ Ended => GetConfig = Get(obs.configBefore)
  /\ (Requested /\ IsSome(obs.follows) /\ Get(obs.options) = NoOptions) =>
       /\ Get(obs.request).model = GetConfig.model
       /\ Get(obs.request).temperature = GetConfig.temperature
       /\ Get(obs.request).max_tokens = GetConfig.maxTokens

C14_Witness ==
  /\ Requested /\ call.kind = "send"
  /\ IsSome(obs.follows) /\ Get(obs.follows).model = Some("m9")
  /\ Get(obs.options) = NoOptions
  /\ Get(obs.request).model = "m1"
  /\ Get(obs.request).max_tokens = 50

C14_WitnessFailedCall ==
  /\ Ended /\ outcome.status = "threw" /\ obs.invocations = 1
  /\ Get(obs.options).model = Some("m9")
  /\ GetConfig.model = "gpt-3.5-turbo"

\* C15: the request of a stream() call has stream: true, whatever the
\* options say, and the request of a send() call has stream: false.
C15_StreamingFlag ==
  Requested => (Get(obs.request).stream <=> call.kind = "stream")

C15_Witness ==
  /\ Requested /\ call.kind = "stream"
  /\ Get(obs.options).stream = Some(FALSE)
  /\ Get(obs.request).stream

C15_WitnessSend ==
  /\ Requested /\ call.kind = "send"
  /\ Get(obs.options).stream = Some(TRUE)
  /\ ~Get(obs.request).stream

\* What an ended call yields when the logger has no part in it: the outcome
\* and the history that the conversation at the start and the behaviour of
\* the backend and of onChunk determine.
SilentOutcome ==
  IF ~IsSome(obs.answer)
    THEN Rethrown(call.kind,
                  IF obs.thrown = <<>> THEN ThrownError(AllAttemptsFailedMessage)
                  ELSE ThrownError(TextOf(LastThrown)))
  ELSE IF call.kind = "send"
    THEN LET completion == Get(obs.answer)
         IN IF ~IsSome(completion.choices)
              THEN Rethrown("send", ThrownError(UndefinedChoicesMessage))
            ELSE IF CompletionContent(completion).kind # "string"
              THEN Rethrown("send", ThrownError(NotAStringMessage))
            ELSE Returned(ResponseOf(completion))
  ELSE IF IsSome(obs.broke) THEN Rethrown("stream", Get(obs.broke))
  ELSE Returned(Concat(obs.chunks))

SilentHistory ==
  IF ~IsSome(obs.answer) THEN obs.before
  ELSE IF call.kind = "send"
    THEN IF IsSome(Get(obs.answer).choices)
           THEN Append(obs.before, Msg("assistant", CompletionContent(Get(obs.answer))))
           ELSE obs.before
  ELSE IF IsSome(obs.broke) THEN obs.before
  ELSE Append(obs.before, Msg("assistant", Str(Concat(obs.chunks))))

\* the backend invocations of a call in which no attempt succeeded, or one did
SilentInvocations == IF IsSome(obs.answer) THEN Len(obs.thrown) + 1 ELSE Limit

\* C16: what send()/stream() yields (the value or error, the number of
\* backend invocations, the history) is what the conversation and the
\* backend's behaviour determine, whether the logger is enabled, disabled or
\* throws.
C16_SinkIsSideChannel ==
  (Ended /\ obs.validated) =>
    /\ outcome = SilentOutcome
    /\ obs.invocations = SilentInvocations
    /\ messages = SilentHistory

ErrorEvents == SelectSeq(events, LAMBDA e : e.type = "ERROR")

\* C17: in a call that reached the backend, the logger was handed one ERROR
\* event for each failed attempt so far, and one more when the call has
\* failed; what it is handed comes out exactly when it is enabled; a call
\* whose first attempt succeeds hands over no ERROR event.
C17_ErrorEvents ==
  (Dispatched /\ obs.invocations >= 1) =>
    /\ Len(ErrorEvents) =
         Len(obs.thrown) + (IF outcome.status = "threw" THEN 1 ELSE 0)
    /\ pc = "attempt" => Len(ErrorEvents) = obs.invocations - 1
    /\ \A i \in 1..Len(events) : events[i].emitted = loggerEnabled

C17_Witness ==
  /\ Ended /\ loggerEnabled /\ sinkFaults = {}
  /\ Len(obs.thrown) = 2 /\ obs.invocations = 2
  /\ outcome.status = "threw"
  /\ events = << [type |-> "REQUEST", emitted |-> TRUE], [type |-> "ERROR", emitted |-> TRUE],
                 [type |-> "ERROR", emitted |-> TRUE], [type |-> "ERROR", emitted |-> TRUE] >>

C17_WitnessDisabled ==
  /\ Ended /\ ~loggerEnabled
  /\ Len(obs.thrown) = 1 /\ outcome.status = "returned"
  /\ events = << [type |-> "REQUEST", emitted |-> FALSE], [type |-> "ERROR", emitted |-> FALSE],
                 [type |-> "RESPONSE", emitted |-> FALSE] >>

C17_WitnessFirstAttempt ==
  /\ Ended /\ loggerEnabled /\ obs.invocations = 1 /\ outcome.status = "returned"
  /\ ErrorEvents = <<>>

\* the ids of a registry, and whether two registries agree on every id but one
Ids(entries) == {entries[i].id : i \in 1..Len(entries)}
SameElsewhere(before, after, id) ==
  /\ Ids(after) \ {id} = Ids(before) \ {id}
  /\ \A other \in Ids(before) \ {id} : MapGet(after, other) = MapGet(before, other)

Registered == registryCall.op = "registerProvider"
Removed == registryCall.op = "removeProvider"
Updated == registryCall.op = "updateProvider"

\* C18: registerProvider with an empty id, name, baseURL or defaultModel
\* throws and leaves the registry as it was; removeProvider of an id that is
\* not registered returns false, throws nothing and leaves the registry as it
\* was; of a registered id it returns true and removes that entry only.
C18_RegisterAndRemove ==
  /\ (Registered /\ (\/ registryCall.id = ""
                      \/ \E f \in {"name", "baseURL", "defaultModel"} :
                           Get(registryCall.arg)[f] = "")) =>
       /\ IsSome(registryCall.threw)
       /\ GetAllProviders = registryCall.before
  /\ (Removed /\ registryCall.id \notin Ids(registryCall.before)) =>
       /\ registryCall.threw = None
       /\ registryCall.returned = Some(FALSE)
       /\ GetAllProviders = registryCall.before
  /\ (Removed /\ registryCall.id \in Ids(registryCall.before)) =>
       /\ registryCall.threw = None
       /\ registryCall.returned = Some(TRUE)
       /\ ~HasProvider(registryCall.id)
       /\ Len(providers) = Len(registryCall.before) - 1
       /\ SameElsewhere(registryCall.before, providers, registryCall.id)

C18_Witness ==
  /\ Registered /\ registryCall.id = "my-ai"
  /\ Get(registryCall.arg).baseURL = ""
  /\ IsSome(registryCall.threw)
  /\ HasProvider("my-ai")

C18_WitnessRemoved ==
  /\ Removed /\ registryCall.id = "openai"
  /\ registryCall.returned = Some(TRUE)
  /\ HasProvider("my-ai") /\ HasProvider("anthropic")

C18_WitnessNotRegistered ==
  /\ Removed /\ registryCall.id = "my-ai"
  /\ registryCall.returned = Some(FALSE)

\* C19: no id has two entries in the registry; registerProvider of a valid
\* profile under a registered id makes getProvider(id) return that profile
\* and leaves the entry of every other id as it was.
C19_UniqueIds ==
  /\ \A i, j \in 1..Len(providers) : providers[i].id = providers[j].id => i = j
  /\ (Registered /\ registryCall.threw = None) =>
       /\ GetProvider(registryCall.id) = registryCall.arg
       /\ SameElsewhere(registryCall.before, providers, registryCall.id)

C19_Witness ==
  /\ Registered /\ registryCall.threw = None
  /\ registryCall.id = "openai"
  /\ MapGet(registryCall.before, "openai") = Some(BuiltinProviders.openai)
  /\ Get(GetProvider("openai")).name = "My AI Service"
  /\ Len(providers) = 3

\* C20: updateProvider of an id that is not registered returns false and
\* changes nothing; of a registered id it returns true, the entry becomes the
\* old profile with the supplied fields replaced, and the entry of every
\* other id is as it was.
C20_UpdateMerges ==
  Updated =>
    LET id == registryCall.id
        partial == Get(registryCall.arg)
        old == MapGet(registryCall.before, id)
    IN IF old = None
         THEN /\ registryCall.returned = Some(FALSE)
              /\ GetAllProviders = registryCall.before
         ELSE /\ registryCall.returned = Some(TRUE)
              /\ IsSome(GetProvider(id))
              /\ \A f \in {"name", "baseURL", "defaultModel", "headers"} :
                   Get(GetProvider(id))[f] =
                     IF partial[f] # None THEN Get(partial[f]) ELSE Get(old)[f]
              /\ SameElsewhere(registryCall.before, providers, id)

C20_Witness ==
  /\ Updated /\ registryCall.id = "openai"
  /\ registryCall.returned = Some(TRUE)
  /\ MapGet(registryCall.before, "openai") = Some(BuiltinProviders.openai)
  /\ GetProvider("openai") =
       Some(Profile("OpenAI", "https://proxy.example/v1", "gpt-3.5-turbo", Some({"X-Title"})))

C20_WitnessNotRegistered ==
  /\ Updated /\ registryCall.id = "my-ai"
  /\ registryCall.returned = Some(FALSE)

\* the caller edits the value getAllProviders() returned
EditsProvidersSnapshot ==
  \/ \E op \in MapEdits, id \in RegistryIds : EditProvidersMap(op, id)
  \/ \E id \in RegistryIds, field \in ProfileEdits : EditProvidersProfile(id, field)

\* C21: editing the value getAllProviders() returned (its entries, or the
\* fields of a profile in it) changes nothing of what getProvider,
\* hasProvider and getAllProviders return afterwards.
C21_ProvidersSnapshotIsolation ==
  [][EditsProvidersSnapshot =>
       /\ GetAllProviders' = GetAllProviders
       /\ \A id \in RegistryIds :
            /\ GetProvider(id)' = GetProvider(id)
            /\ HasProvider(id)' = HasProvider(id)]_vars

\* the part of C21 about the entries of the returned map
C21_MapEditsAreIsolated ==
  [][(\E op \in MapEdits, id \in RegistryIds : EditProvidersMap(op, id)) =>
       GetAllProviders' = GetAllProviders]_vars

(***************************************************************************)
(* Construction-time errors.                                               *)
(***************************************************************************)
ConstructOps == {"new", "createForProvider", "createFromEnv"}

\* keys that are missing, empty or white space only
BlankKeys == {None, Some(""), Some(" "), Some(" \t\n")}

\* the last operation was a constructor call that was handed a configuration
ConstructorCalled == obs.op \in ConstructOps /\ IsSome(obs.given)

\* the provider id the constructor resolved was not registered when it ran
ProviderWasMissing ==
  LET cfg == Get(obs.given)
      id == IF cfg.provider \in {None, Some("")} THEN "openrouter" ELSE Get(cfg.provider)
  IN \A i \in 1..Len(Get(obs.registry)) : Get(obs.registry)[i].id # id

\* the constructor threw, gave no instance and reached no backend
NoInstance ==
  /\ outcome.status = "threw"
  /\ pc = "unbuilt"
  /\ created = None /\ config = None /\ client = None
  /\ obs.invocations = 0 /\ obs.retries = <<>>

\* C22: a constructor call whose API key is missing, empty or white space
\* only, or whose provider id (the given one, 'openrouter' when none is
\* given) is not registered when it runs, throws: no instance comes of it
\* and the backend is neither called nor retried.
C22_ConstructionAborts ==
  (ConstructorCalled /\ (Get(obs.given).apiKey \in BlankKeys \/ ProviderWasMissing))
    => NoInstance

\* a white-space key was refused, and so was an unregistered default provider
C22_BlankKeyRefused ==
  /\ ConstructorCalled /\ Get(obs.given).apiKey = Some(" \t\n")
  /\ outcome = Threw(NewError(KeyRequiredMessage))

C22_MissingProviderRefused ==
  /\ ConstructorCalled /\ Get(obs.given).apiKey = Some("k")
  /\ Get(obs.given).provider = None /\ ProviderWasMissing
  /\ NoInstance

(***************************************************************************)
(* Operations that interleave with a call in flight.                       *)
(***************************************************************************)
\* the configuration and the history the current call started from
AtDispatch == Get(obs.configBefore)

\* the request an attempt of the current call hands to the backend
AttemptRequest == RequestOf(call.kind, call.payload, call.params)

\* the payload and the settings of every attempt are those of the start
RequestIsFixed ==
  /\ AttemptRequest.messages = Linearized(AtDispatch.systemPrompt, obs.before)
  /\ AttemptRequest.model = AtDispatch.model
  /\ AttemptRequest.temperature = AtDispatch.temperature
  /\ AttemptRequest.max_tokens = AtDispatch.maxTokens

\* C23: updateConfig, setSystemPrompt and addMessage calls that interleave
\* with a call in flight change neither the payload, model, temperature and
\* maxTokens of its remaining attempts nor the number of attempts it may
\* make, which is the retry limit the call started with.
C23_RequestConfigIsImmutable ==
  (Dispatched /\ obs.validated /\ IsSome(obs.request)) =>
    /\ RequestIsFixed
    /\ obs.invocations <= AtDispatch.retryAttempts
    /\ Exhausted => obs.invocations = AtDispatch.retryAttempts

\* what does hold: the payload and the request settings of a call in flight
\* are those it started with
C23_RequestSettingsAreFixed ==
  (Dispatched /\ obs.validated /\ IsSome(obs.request)) => RequestIsFixed

(***************************************************************************)
(* updateConfig and enableDebug.                                           *)
(***************************************************************************)
\* the last operation was updateConfig(partial)
Reconfigured == obs.op = "updateConfig"

\* the fields updateConfig was given
Present(partial) == {f \in DOMAIN partial : partial[f] # None}

\* the client is the one the constructor made from its argument
ClientAsConstructed ==
  /\ client.apiKey = Get(created).apiKey
  /\ client.baseURL = ResolvedProfile.baseURL
  /\ client.defaultHeaders = ResolvedProfile.headers
  /\ client.timeout = (IF Get(created).timeout \in {None, Some(0)}
                         THEN DefaultTimeout ELSE Get(Get(created).timeout))

\* C24: updateConfig(partial) gives each field of partial its new value,
\* keeps every other field of the configuration and leaves the history as
\* it was; the API key, base URL and headers of the client that later
\* requests go through stay those of construction, whatever partial holds.
C24_UpdateConfigFrame ==
  /\ Reconfigured =>
       LET partial == Get(obs.options)
           old == Get(obs.configBefore)
       IN /\ DOMAIN GetConfig = DOMAIN old \cup Present(partial)
          /\ \A f \in Present(partial) : GetConfig[f] = Get(partial[f])
          /\ \A f \in DOMAIN old \ Present(partial) : GetConfig[f] = old[f]
          /\ GetMessages.items = obs.before
  /\ ClientAsConstructed

\* a request went out after updateConfig was given another key and provider
C24_Witness ==
  /\ Requested
  /\ "apiKey" \in DOMAIN config /\ config.apiKey = "other"
  /\ config.model = "m2"
  /\ client.apiKey = Some("k")

C24_WitnessUpdated ==
  /\ Reconfigured
  /\ Get(obs.options).temperature = Some(3)
  /\ Get(obs.configBefore).temperature = DefaultTemperature
  /\ Get(obs.configBefore).model = "m2"
  /\ GetMessages.items # <<>>

\* C25: the logger is enabled exactly when getConfig().debug is true, after
\* any construction, updateConfig and enableDebug calls.
C25_LoggerFollowsDebug == loggerEnabled = GetConfig.debug

\* what does hold: enableDebug sets both
C25_EnableDebugSetsBoth ==
  obs.op = "enableDebug" => loggerEnabled = GetConfig.debug

(***************************************************************************)
(* createFromEnv.                                                          *)
(***************************************************************************)
\* the last operation was createFromEnv(provider), the key not overridden
FromEnv == obs.op = "createFromEnv" /\ Get(obs.options).apiKey = None

\* the name of the variable that holds the key of the provider asked for
OwnVariable ==
  CASE obs.provider = Some("my-ai") -> "MY-AI_API_KEY"
    [] obs.provider = Some("openai") -> "OPENAI_API_KEY"
    [] obs.provider = Some("nope") -> "NOPE_API_KEY"
    [] obs.provider = None -> "OPENROUTER_API_KEY"

\* the value of a variable of the environment, if it is set and not empty
Usable(name) ==
  LET env == Get(obs.env)
  IN IF name \in DOMAIN env /\ env[name] \notin {None, Some("")} THEN env[name] ELSE None

\* C26: createFromEnv(provider) hands the constructor the value of
\* <PROVIDER ID IN UPPER CASE>_API_KEY when that variable is set and not
\* empty, whatever the generic variable holds, otherwise the value of
\* OPENAI_API_KEY; when neither holds a key it throws and no instance is made.
C26_EnvKeyPrecedence ==
  FromEnv =>
    IF Usable(OwnVariable) # None
      THEN IsSome(obs.given) /\ Get(obs.given).apiKey = Usable(OwnVariable)
    ELSE IF Usable("OPENAI_API_KEY") # None
      THEN IsSome(obs.given) /\ Get(obs.given).apiKey = Usable("OPENAI_API_KEY")
    ELSE /\ obs.given = None
         /\ NoInstance

\* both variables were set: the instance was made with the provider's own key
C26_Witness ==
  /\ FromEnv /\ obs.provider = Some("my-ai")
  /\ Get(obs.env)["MY-AI_API_KEY"] = Some("sk")
  /\ Get(obs.env)["OPENAI_API_KEY"] = Some("gk")
  /\ pc = "idle"
  /\ client.apiKey = Some("sk")

\* only the generic variable was set, and it was used
C26_WitnessFallback ==
  /\ FromEnv /\ obs.provider = None
  /\ Get(obs.env)["OPENAI_API_KEY"] = Some("gk")
  /\ pc = "idle"
  /\ client.apiKey = Some("gk")

(***************************************************************************)
(* The usage block of an AIResponse.                                       *)
(***************************************************************************)
\* send() returned an AIResponse
Answered == Ended /\ call.kind = "send" /\ outcome.status = "returned"

\* the backend reported both the prompt and the completion token counts
ReportedBoth(completion) ==
  /\ completion.usage # None
  /\ Get(completion.usage).prompt_tokens # None
  /\ Get(completion.usage).completion_tokens # None

\* C27: in every AIResponse, totalTokens is promptTokens + completionTokens
\* whenever the backend reported both counts, and the three values are
\* non-negative integers.
C27_TotalIsSum ==
  Answered =>
    LET usage == Get(outcome.value).usage
    IN /\ ReportedBoth(Get(obs.answer)) =>
            usage.totalTokens = usage.promptTokens + usage.completionTokens
       /\ usage.promptTokens \in Nat
       /\ usage.completionTokens \in Nat
       /\ usage.totalTokens \in Nat

\* what does hold: each value is what the backend reported, zero where it
\* reported none
C27_UsageIsPassedThrough ==
  Answered =>
    LET usage == Get(outcome.value).usage
    IN /\ usage.promptTokens = Reported(Get(obs.answer), "prompt_tokens")
       /\ usage.completionTokens = Reported(Get(obs.answer), "completion_tokens")
       /\ usage.totalTokens = Reported(Get(obs.answer), "total_tokens")

(***************************************************************************)
(* Per-call options that are 0 or ''.                                      *)
(***************************************************************************)
\* C28: each of model, temperature and maxTokens that the per-call options
\* hold is the value dispatched, the values 0 and '' included.
C28_PresentOptionWins ==
  Requested =>
    LET o == Get(obs.options)
        r == Get(obs.request)
    IN /\ o.model # None => r.model = Get(o.model)
       /\ o.temperature # None => r.temperature = Get(o.temperature)
       /\ o.maxTokens # None => r.max_tokens = Get(o.maxTokens)

\* what does hold: a temperature given is the one dispatched, 0 included
C28_TemperatureGivenWins ==
  Requested =>
    (Get(obs.options).temperature # None =>
       Get(obs.request).temperature = Get(Get(obs.options).temperature))

(***************************************************************************)
(* The quick message methods, when they fail.                              *)
(***************************************************************************)
QuickOps == {"sendTextMessage", "sendImageMessage", "sendMultipleMessages"}

\* a quick message method has ended by throwing
QuickFailed == Ended /\ obs.op \in QuickOps /\ outcome.status = "threw"

\* C29: when sendTextMessage, sendImageMessage or sendMultipleMessages ends
\* by throwing, getMessages() is what it was before the call.
C29_FailedQuickCallLeavesHistory ==
  QuickFailed => GetMessages.items = Get(obs.entry)

\* what does hold: a failed call leaves the history that its own change of
\* the history made, when the backend's answer is not what made it fail
C29_FailedQuickCallKeepsItsChange ==
  (QuickFailed /\ ~IsSome(obs.answer)) => GetMessages.items = obs.before

(***************************************************************************)
(* The retry limit.                                                        *)
(***************************************************************************)
\* C30: the retry limit is a positive integer after any construction and
\* updateConfig calls, and a send()/stream() that passed validation has
\* invoked the backend at least once and at most that many times when it
\* ends.
C30_RetryLimitIsPositive ==
  /\ Limit \in Nat \ {0}
  /\ (Ended /\ obs.validated) =>
       (obs.invocations >= 1 /\ obs.invocations <= Limit)

\* what does hold: with a limit of one or more, a validated call invokes the
\* backend at least once and at most that many times
C30_InvokedWithinPositiveLimit ==
  (Ended /\ obs.validated /\ Limit >= 1) =>
    (obs.invocations >= 1 /\ obs.invocations <= Limit)

(***************************************************************************)
(* The order of the attempts of one call.                                  *)
(***************************************************************************)
\* the backend invocations of the current call that have neither failed nor
\* answered yet
Outstanding ==
  obs.invocations - Len(obs.thrown) - (IF IsSome(obs.answer) THEN 1 ELSE 0)

\* where a validated call stands, against what has been seen of it
OneAttemptAtATime ==
  (Dispatched /\ obs.validated) =>
    /\ Outstanding \in {0, 1}
    /\ pc = "attempt" <=> Outstanding = 1
    /\ pc = "backoff" =>
         /\ ~IsSome(obs.answer)
         /\ Len(obs.thrown) = obs.invocations
         /\ Len(obs.retries) = obs.invocations
         /\ obs.retries[obs.invocations] = call.delayMs
         /\ call.delayMs = 1000 * Pow2(obs.invocations)
    /\ IsSome(obs.answer) => pc \in {"consume", "done"}

\* a step in which the current call invokes the backend again
AttemptStarts == obs.invocations >= 1 /\ obs'.invocations = obs.invocations + 1

AttemptsInTurn ==
  /\ AttemptStarts => (pc = "backoff" /\ pc' = "attempt")
  /\ (IsSome(obs.answer) /\ IsSome(obs'.answer)) => obs'.invocations = obs.invocations

\* C31: the attempts of a call come one after the other: attempt k+1 starts
\* only from the backoff that follows the failure of attempt k, after its
\* retry was announced and its delay of 2^k seconds has run; at most one
\* backend invocation of the call is outstanding at any time, and none is
\* made after an attempt has answered.
C31_AttemptsAreSequential == []OneAttemptAtATime /\ [][AttemptsInTurn]_vars

\* the third attempt is under way, the first two having failed and waited
C31_Witness ==
  /\ pc = "attempt"
  /\ obs.invocations = 3
  /\ Len(obs.thrown) = 2
  /\ obs.retries = <<2000, 4000>>

(***************************************************************************)
(* Calls that overlap on one instance.                                     *)
(***************************************************************************)
\* the reply of the current call, once it has returned
ReplyOf(kind, value) == IF kind = "send" THEN value.content ELSE Str(value)

\* the current call returned and no other call ran while it was in flight
ReturnedAlone == Ended /\ outcome.status = "returned" /\ ~obs.overlapped

\* C32: a call during which no other call is in flight leaves, when it
\* returns, the history it dispatched followed by its reply, one assistant
\* message; calls that overlap are not serialized (the state C32_Witness
\* describes is reached).
C32_ReplyFollowsDispatched ==
  ReturnedAlone =>
    /\ call.payload = Linearized(Get(obs.configBefore).systemPrompt, obs.before)
    /\ GetMessages.items =
         Append(obs.before, Msg("assistant", ReplyOf(call.kind, Get(outcome.value))))

\* two overlapping calls dispatched the same payload, the second without the
\* reply of the first, and each appended its reply: the history ends with two
\* assistant messages in a row
C32_Witness ==
  /\ Ended /\ outcome.status = "returned" /\ obs.overlapped
  /\ second.pc = "done" /\ second.outcome.status = "returned"
  /\ second.payload = call.payload
  /\ Len(messages) = Len(obs.before) + 2
  /\ messages[Len(messages) - 1].role = "assistant"
  /\ messages[Len(messages)].role = "assistant"

(***************************************************************************)
(* The one pass over the backend stream.                                   *)
(***************************************************************************)
\* what was consumed so far is the start of the one stream that was opened
SinglePass ==
  (Dispatched /\ call.kind = "stream") =>
    /\ ~IsSome(obs.answer) => (obs.arrived = <<>> /\ obs.chunks = <<>>)
    /\ IsSome(obs.answer) =>
         /\ Len(obs.arrived) <= Len(Get(obs.answer))
         /\ obs.arrived = SubSeq(Get(obs.answer), 1, Len(obs.arrived))
         /\ obs.invocations = Len(obs.thrown) + 1
    /\ IsSome(obs.broke) => (pc = "done" /\ outcome.status = "threw")

\* while the chunks are consumed the backend is not invoked again
NoRetryWhileConsuming ==
  pc = "consume" =>
    /\ pc' \in {"consume", "done"}
    /\ obs'.invocations = obs.invocations
    /\ obs'.retries = obs.retries
    /\ obs'.answer = obs.answer

\* C33: a stream() call opens at most one backend stream and goes over it
\* once: the retries all precede the opening, a failure while the chunks
\* are consumed ends the call, and what onChunk received is the start of
\* that one stream.
C33_SinglePass == []SinglePass /\ [][NoRetryWhileConsuming]_vars

\* a stream opened at the second attempt broke after a fragment, with an
\* attempt to spare, and the call ended
C33_Witness ==
  /\ Ended /\ call.kind = "stream"
  /\ Limit = 3 /\ obs.invocations = 2 /\ Len(obs.thrown) = 1
  /\ IsSome(obs.broke)
  /\ obs.chunks = <<"Hel">>
  /\ outcome.status = "threw"

(***************************************************************************)
(* Termination of a call.                                                  *)
(***************************************************************************)
\* C34: a send() or stream() call that is in flight eventually ends, by
\* returning or by throwing, when every backend invocation answers or
\* fails, every backoff timer fires and the stream delivers its chunks and
\* its end.
C34_CallsComplete == InFlight ~> (pc = "done" /\ outcome.status \in {"returned", "threw"})

\* a stream() call ended after every attempt but the last had failed and the
\* whole stream was consumed
C34_Witness ==
  /\ Ended /\ call.kind = "stream" /\ outcome.status = "returned"
  /\ Limit = 3 /\ obs.invocations = 3
  /\ Len(obs.arrived) = 4

(***************************************************************************)
(* The profile of an instance is the one found at construction.            *)
(***************************************************************************)
\* the profile the registry held for the instance's provider id when the
\* instance was built
ProfileAtConstruction == Get(MapGet(InitialProviders, ProviderIdOf(Get(created))))

RegistryMovedOn ==
  MapGet(providers, ProviderIdOf(Get(created))) # Some(ProfileAtConstruction)

\* C35: whatever is registered over, updated or removed in the registry
\* after construction, a dispatch goes through the client made from the
\* profile found at construction (its endpoint and headers), asks for the
\* model resolved at construction, and a call the backend answers returns.
C35_ProfileFixedAtConstruction ==
  /\ client = ClientOf(Get(created), ProfileAtConstruction)
  /\ config.model = ConfigOf(Get(created), ProfileAtConstruction).model
  /\ (Dispatched /\ obs.validated) =>
        /\ obs.via = Some(ClientOf(Get(created), ProfileAtConstruction))
        /\ Get(obs.request).model = ConfigOf(Get(created), ProfileAtConstruction).model
        /\ (Ended => outcome.status = "returned")

\* a call dispatched after the instance's provider was removed from the
\* registry returned
C35_Witness ==
  /\ Ended /\ obs.validated /\ outcome.status = "returned"
  /\ ~MapHas(providers, ProviderIdOf(Get(created)))
  /\ call.params.model = "gpt-3.5-turbo"

\* a call dispatched after the instance's provider was given another
\* endpoint and default model returned
C35_WitnessUpdated ==
  /\ Ended /\ obs.validated /\ outcome.status = "returned"
  /\ MapHas(providers, ProviderIdOf(Get(created))) /\ RegistryMovedOn

(***************************************************************************)
(* The profiles the registry stores.                                       *)
(***************************************************************************)
Complete(profile) ==
  profile.name # "" /\ profile.baseURL # "" /\ profile.defaultModel # ""

AllComplete(entries) == \A i \in 1..Len(entries) : Complete(entries[i].config)

\* C36: after any registerProvider, updateProvider and removeProvider calls
\* every stored profile has a non-empty name, baseURL and defaultModel.
C36_StoredProfilesComplete == AllComplete(providers)

\* what does hold: registerProvider and removeProvider never store an
\* incomplete profile in a registry whose profiles are complete
C36_RegisterAndRemoveKeepComplete ==
  [][(registryCall'.op \in {"registerProvider", "removeProvider"} /\ AllComplete(providers))
       => AllComplete(providers')]_vars

(***************************************************************************)
(* ConfigManager beside ProviderRegistry.                                  *)
(***************************************************************************)
IdsOf(entries) == { entries[i].id : i \in 1..Len(entries) }
KnownIds == IdsOf(providers) \cup IdsOf(customProviders) \cup ManagerIds

\* C37: ConfigManager.getProvider(id) returns a profile exactly when
\* ProviderRegistry.hasProvider(id), the profile the registry holds, and
\* every id of ConfigManager.getAllProviders() is registered.
C37_ManagerAgreesWithRegistry ==
  /\ \A id \in KnownIds :
       /\ IsSome(ManagerGetProvider(id)) <=> HasProvider(id)
       /\ ManagerGetProvider(id) = GetProvider(id)
  /\ IdsOf(ManagerGetAllProviders) \subseteq IdsOf(providers)

\* the three parts of C37, each on its own
C37_ReturnsExactlyWhenRegistered ==
  \A id \in KnownIds : IsSome(ManagerGetProvider(id)) <=> HasProvider(id)
C37_ReturnsTheRegisteredProfile ==
  \A id \in KnownIds : HasProvider(id) => ManagerGetProvider(id) = GetProvider(id)
C37_ListsRegisteredIdsOnly == IdsOf(ManagerGetAllProviders) \subseteq IdsOf(providers)

\* what does hold: every registered id is known to the ConfigManager
C37_RegisteredIdsAreListed ==
  /\ IdsOf(providers) \subseteq IdsOf(ManagerGetAllProviders)
  /\ \A id \in KnownIds : HasProvider(id) => IsSome(ManagerGetProvider(id))

(***************************************************************************)
(* sendMultipleMessages that returns.                                      *)
(***************************************************************************)
\* the messages of a list given to sendMultipleMessages, in the given order
GivenMessages(list) == [i \in 1..Len(list) |-> Msg(list[i].role, Str(list[i].content))]

MultipleReturned ==
  Ended /\ obs.op = "sendMultipleMessages" /\ outcome.status = "returned"

\* C38: when sendMultipleMessages(ms) returns, getMessages() is the
\* messages of ms in the given order followed by one assistant message with
\* the reply, whatever the history held before; the system prompt is what
\* it was, and the payload dispatched was the system message, if the prompt
\* is not empty, followed by ms.
C38_MultipleReplacesHistory ==
  MultipleReturned =>
    LET ms == GivenMessages(Get(obs.given))
    IN /\ GetMessages.items = ms \o <<Msg("assistant", Get(outcome.value).content)>>
       /\ config.systemPrompt = Get(obs.configBefore).systemPrompt
       /\ call.payload =
            (IF config.systemPrompt # ""
               THEN <<Msg("system", Str(config.systemPrompt))>> ELSE <<>>) \o ms
       /\ Get(obs.request).messages = call.payload

\* sendMultipleMessages returned on an instance that has a system prompt and
\* held another message before the call
C38_Witness ==
  /\ MultipleReturned
  /\ Get(obs.entry) = <<Msg("user", Str("a"))>>
  /\ Get(obs.given) = <<[role |-> "assistant", content |-> "b"],
                        [role |-> "user", content |-> "a"]>>
  /\ config.systemPrompt = "You are terse."
  /\ Len(messages) = 3

(***************************************************************************)
(* The ranges of the dispatched parameters.                                *)
(***************************************************************************)
\* temperatures are in tenths: 0.0 to 2.0
TemperatureRange == 0..20

WithinRanges(request) ==
  request.temperature \in TemperatureRange /\ request.max_tokens \in Nat \ {0}

\* C39: the temperature of every dispatched request is within [0.0, 2.0] and
\* its maxTokens is a positive integer, whatever was given to the
\* constructor, to updateConfig and with the call.
C39_DispatchedWithinRanges ==
  IsSome(obs.request) => WithinRanges(Get(obs.request))

\* what does hold: the dispatched values are within the ranges when the
\* instance's own and the call's values are
C39_WithinRangesWhenGivenSo ==
  (IsSome(obs.request) /\ IsSome(obs.configBefore)) =>
    LET cfg == Get(obs.configBefore)
        o == Get(obs.options)
    IN (/\ cfg.temperature \in TemperatureRange /\ cfg.maxTokens \in Nat \ {0}
        /\ (IsSome(o.temperature) => Get(o.temperature) \in TemperatureRange)
        /\ (IsSome(o.maxTokens) => Get(o.maxTokens) \in Nat))
       => WithinRanges(Get(obs.request))

====
